---- MODULE Spec2Model ----
(***************************************************************************)
(* A model of hv-lua's userdata layer (src/src/userdata.rs), built with    *)
(* the "lua54" feature: one AnyUserData handle, the UserDataCell behind    *)
(* it (a RefCell<AlchemicalPtr>), the views handed out by borrow and       *)
(* borrow_mut, and the handle's user-value slots.                          *)
(***************************************************************************)
EXTENDS Integers, FiniteSets, Sequences, TLC

\* Largest number of shared views held at once.
MaxViews == 2

USER_VALUE_MAXSLOT == 8

U16_MAX == 65535

\* TypeId values of the registered userdata types.
TypeIds == {"T1", "T2"}

\* Trait objects a caller asks for with dyn_borrow::<U>, dyn_take::<U>, ...
\* Every type table carries dyn AlchemicalAny; "U1" is declared by some types.
DynTraits == {"AlchemicalAny", "U1"}

\* Lua values stored in user-value slots ("nil" is Lua's nil).
LuaValues == {"nil", "a"}

\* Slot indices passed to get_nth_user_value / set_nth_user_value.
SlotArgs == {0, 1, 7, 8, 9, 65535, 65536}

\* The static TypeTable of the stored value: its TypeId, whether a clone
\* function is registered, the declared dyn traits, the Copy flag, and
\* whether dyn IntoProxy<R> is declared for the one conversion target R.
TypeTables ==
    [id : TypeIds, clone : BOOLEAN, traits : SUBSET {"U1"},
     copy : BOOLEAN, into : BOOLEAN]

\* Keys of the overflow table: getn(n) for the slot arguments n >= 8.
getn(n) == n - USER_VALUE_MAXSLOT + 1

TableKeys == {getn(n) : n \in {m \in SlotArgs : m >= USER_VALUE_MAXSLOT /\ m <= U16_MAX}}

InlineSlots == 1 .. (USER_VALUE_MAXSLOT - 1)

\* Slot USER_VALUE_MAXSLOT of a userdata: nil, or the overflow table.
NoTable == [is_table |-> FALSE, e |-> [k \in TableKeys |-> "nil"]]

NewTable == [is_table |-> TRUE, e |-> [k \in TableKeys |-> "nil"]]

(***************************************************************************)
(* Metamethod names.  A name is the sequence of its characters, so that    *)
(* the prefix test of MetaMethod::validate is computed on the name.        *)
(***************************************************************************)
S ==
    [index     |-> <<"_", "_", "i", "n", "d", "e", "x">>,
     newindex  |-> <<"_", "_", "n", "e", "w", "i", "n", "d", "e", "x">>,
     eq        |-> <<"_", "_", "e", "q">>,
     gc        |-> <<"_", "_", "g", "c">>,
     metatable |-> <<"_", "_", "m", "e", "t", "a", "t", "a", "b", "l", "e">>,
     mlua      |-> <<"_", "_", "m", "l", "u", "a">>,
     mlua_ptr  |-> <<"_", "_", "m", "l", "u", "a", "_", "p", "t", "r">>,
     mlu       |-> <<"_", "_", "m", "l", "u">>,
     foo       |-> <<"f", "o", "o">>]

\* The names used as metatable keys.
KeyNames ==
    {S.index, S.newindex, S.eq, S.gc, S.metatable, S.mlua, S.mlua_ptr,
     S.mlu, S.foo}

\* str::starts_with
starts_with(s, p) == Len(s) >= Len(p) /\ SubSeq(s, 1, Len(p)) = p

\* enum MetaMethod: the built-in variants Index, NewIndex and Eq stand for
\* all built-in variants; Custom carries its name.
Custom(n) == [tag |-> "Custom", name |-> n]

Index == [tag |-> "Index", name |-> <<>>]

NewIndex == [tag |-> "NewIndex", name |-> <<>>]

Eq == [tag |-> "Eq", name |-> <<>>]

\* MetaMethod::name
name(m) ==
    CASE m.tag = "Index" -> S.index
      [] m.tag = "NewIndex" -> S.newindex
      [] m.tag = "Eq" -> S.eq
      [] m.tag = "Custom" -> m.name

\* impl From<StdString> for MetaMethod
From(n) ==
    IF n = S.index THEN Index
    ELSE IF n = S.newindex THEN NewIndex
    ELSE IF n = S.eq THEN Eq
    ELSE Custom(n)

\* The equality #[derive(PartialEq)] would give: same variant, same payload.
MetaMethodEq_derived(a, b) == a = b

\* impl PartialEq for MetaMethod: equality of the names.
MetaMethodEq(a, b) == name(a) = name(b)

\* validate that compares the whole name with "__mlua".
validate_whole_name(m) ==
    ~ /\ m.tag = "Custom"
      /\ \/ m.name = S.gc
         \/ m.name = S.metatable
         \/ m.name = S.mlua

\* MetaMethod::validate: TRUE when the result is Ok(self).
validate(m) ==
    ~ /\ m.tag = "Custom"
      /\ \/ m.name = S.gc
         \/ m.name = S.metatable
         \/ starts_with(m.name, S.mlua)

\* The keys callers pass (K: Into<MetaMethod>): a name, converted by From,
\* or a MetaMethod value built by the caller, Custom of any name included.
Keys == {From(n) : n \in KeyNames} \cup {Custom(n) : n \in KeyNames}

\* Values stored in a metatable: nil, functions returning true, false or
\* an error when called, a value that is no function, and the entries the
\* runtime keeps for itself.
MtValues == {"nil", "fn_true", "fn_false", "fn_err", "str"}

\* The metatable as registration leaves it: the cached __index, the __gc
\* hook, the __metatable guard and an internal __mlua entry are present.
MetatableNew ==
    [n \in KeyNames |->
        IF n \in {S.index, S.gc, S.metatable, S.mlua_ptr} THEN "internal" ELSE "nil"]

NoB == [same |-> FALSE, destructed |-> FALSE, id |-> "-"]

NoMeta == [op |-> "new", key |-> Eq, v |-> "nil", b |-> NoB, res |-> "Ok", out |-> "-"]

(***************************************************************************)
(* The creation of a type's metatable: the hook on_metatable_init, then    *)
(* the registrations add_fields and add_methods.                           *)
(***************************************************************************)
\* Most entries one registration attaches.
MaxEntries == 2

\* What a hook declares on the type table (add_clone, add_send, add_sync).
Caps == {"Clone", "Send", "Sync"}

\* decl: the declarations on the type table; hook: the hook has run, with
\* hookdecl what it declared; fields, methods: the entries attached;
\* seen: the declarations present when the first of them was attached.
RegNew ==
    [step |-> 0, decl |-> {}, hook |-> FALSE, hookdecl |-> {}, fields |-> 0,
     methods |-> 0, attached |-> FALSE, seen |-> {}]

(***************************************************************************)
(* Lua strings (tests/string.rs): byte strings that may hold any byte,     *)
(* zero included, kept by Lua with one zero byte after the last byte.      *)
(***************************************************************************)
\* Longest byte sequence a string is created from.
MaxLen == 3

\* Bytes of the test strings: NUL, an ASCII letter, the two bytes of a
\* two-byte UTF-8 sequence, and \255, which no UTF-8 text contains.
Bytes == {0, 65, 195, 169, 255}

ByteSeqs == UNION {[1..n -> Bytes] : n \in 0..MaxLen}

\* Lua::create_string(b): the string's memory and its length.
create_string(b) ==
    [b |-> b, mem |-> b \o <<0>>, len |-> Len(b), op |-> "new", res |-> "Ok", out |-> <<>>]

\* String::as_bytes_with_nul with the length taken by strlen: the bytes up
\* to and with the first zero byte.
as_bytes_with_nul_strlen(ls) ==
    LET z == CHOOSE i \in 1..Len(ls.mem) :
                 ls.mem[i] = 0 /\ \A j \in 1..(i - 1) : ls.mem[j] # 0
    IN  SubSeq(ls.mem, 1, z)

\* String::as_bytes_with_nul: lua_tolstring gives the address and the
\* length; the slice is one byte longer than the length.
as_bytes_with_nul(ls) == SubSeq(ls.mem, 1, ls.len + 1)

\* String::as_bytes: as_bytes_with_nul without its last byte.
as_bytes(ls) ==
    LET nulled == as_bytes_with_nul(ls) IN SubSeq(nulled, 1, Len(nulled) - 1)

\* Bytes a UTF-8 sequence starting with byte c takes; 0 for no start byte.
utf8_char_width(c) ==
    IF c < 128 THEN 1
    ELSE IF c >= 194 /\ c <= 223 THEN 2
    ELSE IF c >= 224 /\ c <= 239 THEN 3
    ELSE IF c >= 240 /\ c <= 244 THEN 4
    ELSE 0

\* The range the second byte of a sequence starting with c must lie in.
second_ok(c, d) ==
    CASE c = 224 -> d >= 160 /\ d <= 191
      [] c = 237 -> d >= 128 /\ d <= 159
      [] c = 240 -> d >= 144 /\ d <= 191
      [] c = 244 -> d >= 128 /\ d <= 143
      [] OTHER -> d >= 128 /\ d <= 191

\* core::str::from_utf8: whether the bytes from position i on are UTF-8.
RECURSIVE from_utf8(_, _)
from_utf8(b, i) ==
    IF i > Len(b) THEN TRUE
    ELSE LET w == utf8_char_width(b[i]) IN
         /\ w > 0
         /\ i + w - 1 <= Len(b)
         /\ w > 1 => second_ok(b[i], b[i + 1])
         /\ \A j \in (i + 2)..(i + w - 1) : b[j] >= 128 /\ b[j] <= 191
         /\ from_utf8(b, i + w)

\* String::to_str: str::from_utf8(self.as_bytes()).
to_str(ls) ==
    IF from_utf8(as_bytes(ls), 1) THEN [res |-> "Ok", out |-> as_bytes(ls)]
    ELSE [res |-> "FromLuaConversionError", out |-> <<>>]

\* No iterator yet: pairs has not been called.
NoIter == [started |-> FALSE, done |-> FALSE, rest |-> <<>>, yielded |-> <<>>]

\* No handle made by try_clone_to_user_data; value is what the newest
\* one holds.
NoneMade == [count |-> 0, value |-> 0]

VARIABLES
    tt,          \* TypeTable of the value stored in the handle's cell
    destructed,  \* the handle's metatable is the destructed-userdata metatable
    flag,        \* RefCell borrow flag: -1 writing, 0 unused, n > 0 readers
    refs,        \* live Ref<T> views returned to callers
    muts,        \* live RefMut<T> views returned to callers
    moved,       \* times the stored value was moved out of the cell
    uservalues,  \* user-value slots 1 .. USER_VALUE_MAXSLOT-1
    uvtable,     \* user-value slot USER_VALUE_MAXSLOT (nil or the overflow table)
    last,        \* the last handle operation: name, arguments, result
    everset,     \* history: the slot indices set_nth_user_value has set
    policy,      \* proxy marker of the wrapper type: "Mutable" or "Immutable"
    gflag,       \* the wrapper's lock on the inner value: -1, 0, n > 0
    gshared,     \* shared guards of the inner value held outside any call
    gexcl,       \* exclusive guards of the inner value held outside any call
    inner,       \* the counter: the value in the handle, or behind the wrapper in it
    stack,       \* forwarded calls whose inner callback is running
    plast,       \* the last forwarded call or return: kind and result
    mt,          \* the metatable of the handle's type: key name -> value
    mlast,       \* the last metatable operation or equals: arguments, result
    reg,         \* the creation of the type's metatable: how far it has got
    lstr,        \* a Lua string: its bytes, and the last view taken of it
    pairs_iter,  \* the iterator over the metatable's pairs, once pairs was called
    made         \* the handles try_clone_to_user_data has created

\* The handle, its cell, its views and its user values.
hvars == <<tt, destructed, flag, refs, muts, moved, uservalues, uvtable, last>>

\* The wrapper stored in the handle, seen through the proxy layer.
pvars == <<policy, gflag, gshared, gexcl, inner, stack, plast>>

\* The metatable shared by the handles of the stored type.
mvars == <<mt, mlast>>

vars == <<hvars, everset, pvars, mvars, reg, lstr, pairs_iter, made>>

\* The mutable part of the state, as the handlers see it.
St ==
    [destructed |-> destructed, flag |-> flag, moved |-> moved,
     uv |-> uservalues, uvt |-> uvtable]

\* A handler's outcome: result tag, returned payload, state afterwards.
Out(res, out, s) == [res |-> res, out |-> out, s |-> s]

Fail(err, s) == Out(err, "-", s)

(***************************************************************************)
(* UserDataCell: the RefCell around the stored value.  Each operator takes *)
(* the borrow flag and returns the result with the flag afterwards; a      *)
(* successful call leaves the returned view counted in the flag.           *)
(***************************************************************************)
Declares(t, U) == U = "AlchemicalAny" \/ U \in t.traits

\* try_borrow that does not see the writer: a view is granted under it.
try_borrow_under_writer(f) ==
    [res |-> "Ok", flag |-> IF f >= 0 THEN f + 1 ELSE f]

\* try_borrow with the test of try_borrow_mut: readers exclude readers.
try_borrow_unshared(f) ==
    IF f = 0 THEN [res |-> "Ok", flag |-> f + 1]
    ELSE [res |-> "UserDataBorrowError", flag |-> f]

try_borrow(f) ==
    IF f >= 0 THEN [res |-> "Ok", flag |-> f + 1]
    ELSE [res |-> "UserDataBorrowError", flag |-> f]

\* try_borrow_mut that forgets the readers: only a writer excludes it.
try_borrow_mut_over_readers(f) ==
    IF f >= 0 THEN [res |-> "Ok", flag |-> -1]
    ELSE [res |-> "UserDataBorrowMutError", flag |-> f]

try_borrow_mut(f) ==
    IF f = 0 THEN [res |-> "Ok", flag |-> -1]
    ELSE [res |-> "UserDataBorrowMutError", flag |-> f]

\* try_dyn_borrow that looks the trait up before it borrows the RefCell.
try_dyn_borrow_lookup_first(f, t, U) ==
    IF ~Declares(t, U) THEN [res |-> "UserDataDynMismatch", flag |-> f]
    ELSE try_borrow(f)

\* The RefCell is borrowed first; Ref::filter_map then downcasts, and on a
\* failed downcast the Ref is dropped again by map_err.
try_dyn_borrow(f, t, U) ==
    LET r == try_borrow(f) IN
    IF r.res # "Ok" THEN r
    ELSE IF Declares(t, U) THEN r
    ELSE [res |-> "UserDataDynMismatch", flag |-> f]

try_dyn_borrow_mut(f, t, U) ==
    LET r == try_borrow_mut(f) IN
    IF r.res # "Ok" THEN r
    ELSE IF Declares(t, U) THEN r
    ELSE [res |-> "UserDataDynMismatch", flag |-> f]

(***************************************************************************)
(* Lua-side helpers the handle operations call.                            *)
(***************************************************************************)
\* A metatable lookup that still finds the stored type after the value was
\* taken out.
mt_type_id_stale(s, t) == t.id

\* TypeId registered for the handle's current metatable.
mt_type_id(s, t) == IF s.destructed THEN "DestructedUserdataMT" ELSE t.id

\* Lua::push_userdata_ref: rejects a handle whose metatable is the
\* destructed-userdata metatable, else yields the registered type table.
\* The handle holds a 'static userdata, so the table is Some(_); the arms
\* for None (userdata of Lua::scope) and a failing check_stack are left out.
push_userdata_ref(s, t) ==
    IF mt_type_id(s, t) = "DestructedUserdataMT" THEN "UserDataDestructed"
    ELSE "Ok"

\* util::take_userdata: swaps in the destructed metatable and moves the
\* cell's contents out.
take_userdata(s) == [s EXCEPT !.destructed = TRUE, !.moved = @ + 1]

\* ffi::lua_setiuservalue(state, idx, i) with nil on top of the stack.
clear_slot(s, i) ==
    IF i < USER_VALUE_MAXSLOT THEN [s EXCEPT !.uv[i] = "nil"]
    ELSE [s EXCEPT !.uvt = NoTable]

\* ffi::lua_setuservalue(state, idx): in Lua 5.4 it is lua_setiuservalue
\* on slot 1.
lua_setuservalue_nil(s) == clear_slot(s, 1)

RECURSIVE clear_slots(_, _)
clear_slots(s, i) ==
    IF i > USER_VALUE_MAXSLOT THEN s ELSE clear_slots(clear_slot(s, i), i + 1)

(***************************************************************************)
(* AnyUserData: inspect / inspect_raw and the operations built on them.    *)
(***************************************************************************)
\* func is a pure function of the cell, so it is passed as r, its result on
\* the cell as it is: r is used only on the arm that calls func.
inspect(s, t, T, r) ==
    LET p == push_userdata_ref(s, t) IN
    IF p # "Ok" THEN [res |-> p, flag |-> s.flag]
    ELSE IF mt_type_id(s, t) = T THEN r
    ELSE [res |-> "UserDataTypeMismatch", flag |-> s.flag]

inspect_raw(s, t, r) ==
    LET p == push_userdata_ref(s, t) IN
    IF p # "Ok" THEN [res |-> p, flag |-> s.flag]
    ELSE IF mt_type_id(s, t) = "DestructedUserdataMT"
         THEN [res |-> "UserDataDestructed", flag |-> s.flag]
    ELSE r

ok_unit(f) == [res |-> "Ok", flag |-> f]

is(s, t, T) ==
    LET r == inspect(s, t, T, ok_unit(s.flag)) IN
    IF r.res = "Ok" THEN Out("Ok", "true", s)
    ELSE IF r.res = "UserDataTypeMismatch" THEN Out("Ok", "false", s)
    ELSE Out("panic", "unreachable", s)

\* The view a successful borrow returns, kept by the caller.
view_out(r, kind) ==
    [res |-> r.res, out |-> IF r.res = "Ok" THEN kind ELSE "-"]

borrow(s, t, T) ==
    LET r == inspect(s, t, T, try_borrow(s.flag)) IN
    Out(r.res, view_out(r, "Ref").out, [s EXCEPT !.flag = r.flag])

\* borrow_mut with the test of borrow: granted next to shared views.
borrow_mut_shared(s, t, T) ==
    LET r == inspect(s, t, T, try_borrow(s.flag)) IN
    Out(r.res, view_out(r, "RefMut").out, [s EXCEPT !.flag = r.flag])

\* borrow_mut through inspect_raw: the stored type is not compared with T.
borrow_mut_untyped(s, t, T) ==
    LET r == inspect_raw(s, t, try_borrow_mut(s.flag)) IN
    Out(r.res, view_out(r, "RefMut").out, [s EXCEPT !.flag = r.flag])

borrow_mut(s, t, T) ==
    LET r == inspect(s, t, T, try_borrow_mut(s.flag)) IN
    Out(r.res, view_out(r, "RefMut").out, [s EXCEPT !.flag = r.flag])

dyn_borrow(s, t, U) ==
    LET r == inspect_raw(s, t, try_dyn_borrow(s.flag, t, U)) IN
    Out(r.res, view_out(r, "Ref").out, [s EXCEPT !.flag = r.flag])

dyn_borrow_mut(s, t, U) ==
    LET r == inspect_raw(s, t, try_dyn_borrow_mut(s.flag, t, U)) IN
    Out(r.res, view_out(r, "RefMut").out, [s EXCEPT !.flag = r.flag])

\* take without the exclusive-borrow test.
take_unchecked(s, t, T) ==
    LET p == push_userdata_ref(s, t) IN
    IF p # "Ok" THEN Fail(p, s)
    ELSE IF mt_type_id(s, t) = T THEN
        Out("Ok", "value", take_userdata(lua_setuservalue_nil(s)))
    ELSE Fail("UserDataTypeMismatch", s)

\* take that clears the user value before it tests the exclusive borrow.
take_clears_first(s, t, T) ==
    LET p == push_userdata_ref(s, t) IN
    IF p # "Ok" THEN Fail(p, s)
    ELSE IF mt_type_id(s, t) = T THEN
        LET b == try_borrow_mut(s.flag) IN
        IF b.res # "Ok" THEN Fail(b.res, lua_setuservalue_nil(s))
        ELSE Out("Ok", "value", take_userdata(lua_setuservalue_nil(s)))
    ELSE Fail("UserDataTypeMismatch", s)

\* The exclusive borrow is a temporary: it is dropped before the user value
\* is cleared and the cell is taken.
take(s, t, T) ==
    LET p == push_userdata_ref(s, t) IN
    IF p # "Ok" THEN Fail(p, s)
    ELSE IF mt_type_id(s, t) = T THEN
        LET b == try_borrow_mut(s.flag) IN
        IF b.res # "Ok" THEN Fail(b.res, s)
        ELSE Out("Ok", "value", take_userdata(lua_setuservalue_nil(s)))
    ELSE Fail("UserDataTypeMismatch", s)

\* clone_or_take that takes even when the type has a clone function.
clone_or_take_never_clones(s, t, T) ==
    LET p == push_userdata_ref(s, t) IN
    IF p # "Ok" THEN Fail(p, s)
    ELSE IF mt_type_id(s, t) = T THEN
        LET b == try_dyn_borrow_mut(s.flag, t, "AlchemicalAny") IN
        IF b.res # "Ok" THEN Fail(b.res, s)
        ELSE Out("Ok", "value", take_userdata(lua_setuservalue_nil(s)))
    ELSE Fail("UserDataTypeMismatch", s)

\* clone_or_take that clones before it asks for the exclusive borrow.
clone_or_take_clone_first(s, t, T) ==
    LET p == push_userdata_ref(s, t) IN
    IF p # "Ok" THEN Fail(p, s)
    ELSE IF mt_type_id(s, t) = T THEN
        IF t.clone THEN Out("Ok", "clone", s)
        ELSE LET b == try_dyn_borrow_mut(s.flag, t, "AlchemicalAny") IN
             IF b.res # "Ok" THEN Fail(b.res, s)
             ELSE Out("Ok", "value", take_userdata(lua_setuservalue_nil(s)))
    ELSE Fail("UserDataTypeMismatch", s)

\* push_userdata_ref yields Some(_) for every 'static userdata type, so the
\* None arm (UserDataDestructed) is never taken here.
clone_or_take(s, t, T) ==
    LET p == push_userdata_ref(s, t) IN
    IF p # "Ok" THEN Fail(p, s)
    ELSE IF mt_type_id(s, t) = T THEN
        LET b == try_dyn_borrow_mut(s.flag, t, "AlchemicalAny") IN
        IF b.res # "Ok" THEN Fail(b.res, s)
        ELSE IF t.clone THEN Out("Ok", "clone", s)
        ELSE Out("Ok", "value", take_userdata(lua_setuservalue_nil(s)))
    ELSE Fail("UserDataTypeMismatch", s)

dyn_take(s, t, U) ==
    LET p == push_userdata_ref(s, t) IN
    IF p # "Ok" THEN Fail(p, s)
    ELSE IF mt_type_id(s, t) # "DestructedUserdataMT" THEN
        LET b == try_dyn_borrow_mut(s.flag, t, U) IN
        IF b.res # "Ok" THEN Fail(b.res, s)
        ELSE Out("Ok", "value", take_userdata(clear_slots(s, 1)))
    ELSE Fail("UserDataDestructed", s)

dyn_clone_or_take(s, t, U) ==
    LET p == push_userdata_ref(s, t) IN
    IF p # "Ok" THEN Fail(p, s)
    ELSE IF mt_type_id(s, t) # "DestructedUserdataMT" /\ Declares(t, U) THEN
        LET b == try_dyn_borrow_mut(s.flag, t, "AlchemicalAny") IN
        IF b.res # "Ok" THEN Fail(b.res, s)
        ELSE IF t.clone THEN Out("Ok", "clone", s)
        ELSE Out("Ok", "value", take_userdata(lua_setuservalue_nil(s)))
    ELSE Fail("UserDataDestructed", s)

\* convert_into that asks for the exclusive borrow before it looks the
\* conversion up.
convert_into_borrow_first(s, t) ==
    LET p == push_userdata_ref(s, t) IN
    IF p # "Ok" THEN Fail(p, s)
    ELSE IF mt_type_id(s, t) # "DestructedUserdataMT" THEN
        LET b == try_borrow_mut(s.flag) IN
        IF b.res # "Ok" THEN Fail("UserDataBorrowMutError", s)
        ELSE IF ~t.into THEN Fail("UserDataDynMismatch", s)
        ELSE IF t.copy THEN Out("Ok", "converted", s)
        ELSE Out("Ok", "converted", take_userdata(lua_setuservalue_nil(s)))
    ELSE Fail("UserDataDestructed", s)

\* convert_into without the is_copy test: the handle is always consumed.
convert_into_always_consumes(s, t) ==
    LET p == push_userdata_ref(s, t) IN
    IF p # "Ok" THEN Fail(p, s)
    ELSE IF mt_type_id(s, t) # "DestructedUserdataMT" THEN
        IF ~t.into THEN Fail("UserDataDynMismatch", s)
        ELSE
            LET b == try_borrow_mut(s.flag) IN
            IF b.res # "Ok" THEN Fail("UserDataBorrowMutError", s)
            ELSE Out("Ok", "converted", take_userdata(lua_setuservalue_nil(s)))
    ELSE Fail("UserDataDestructed", s)

convert_into(s, t) ==
    LET p == push_userdata_ref(s, t) IN
    IF p # "Ok" THEN Fail(p, s)
    ELSE IF mt_type_id(s, t) # "DestructedUserdataMT" THEN
        IF ~t.into THEN Fail("UserDataDynMismatch", s)
        ELSE
            LET b == try_borrow_mut(s.flag) IN
            IF b.res # "Ok" THEN Fail("UserDataBorrowMutError", s)
            ELSE IF t.copy THEN Out("Ok", "converted", s)
            ELSE Out("Ok", "converted", take_userdata(lua_setuservalue_nil(s)))
    ELSE Fail("UserDataDestructed", s)

\* set_nth_user_value that tests only the upper bound of the index.
set_nth_user_value_no_lower_bound(s, t, n, v) ==
    IF n > U16_MAX THEN Fail("RuntimeError", s)
    ELSE
        LET p == push_userdata_ref(s, t) IN
        IF p # "Ok" THEN Fail(p, s)
        ELSE IF n < USER_VALUE_MAXSLOT THEN Out("Ok", "-", s)
        ELSE
            LET tab == IF s.uvt.is_table THEN s.uvt ELSE NewTable IN
            Out("Ok", "-", [s EXCEPT !.uvt = [tab EXCEPT !.e[getn(n)] = v]])

\* set_nth_user_value that makes a new overflow table on every write beyond
\* the inline slots.
set_nth_user_value_fresh_table(s, t, n, v) ==
    IF n < 1 \/ n > U16_MAX THEN Fail("RuntimeError", s)
    ELSE
        LET p == push_userdata_ref(s, t) IN
        IF p # "Ok" THEN Fail(p, s)
        ELSE IF n < USER_VALUE_MAXSLOT THEN Out("Ok", "-", [s EXCEPT !.uv[n] = v])
        ELSE Out("Ok", "-", [s EXCEPT !.uvt = [NewTable EXCEPT !.e[getn(n)] = v]])

set_nth_user_value(s, t, n, v) ==
    IF n < 1 \/ n > U16_MAX THEN Fail("RuntimeError", s)
    ELSE
        LET p == push_userdata_ref(s, t) IN
        IF p # "Ok" THEN Fail(p, s)
        ELSE IF n < USER_VALUE_MAXSLOT THEN Out("Ok", "-", [s EXCEPT !.uv[n] = v])
        ELSE
            LET tab == IF s.uvt.is_table THEN s.uvt ELSE NewTable IN
            Out("Ok", "-", [s EXCEPT !.uvt = [tab EXCEPT !.e[getn(n)] = v]])

\* get_nth_user_value that takes a missing overflow table for an error.
get_nth_user_value_needs_table(s, t, n) ==
    IF n < 1 \/ n > U16_MAX THEN Fail("RuntimeError", s)
    ELSE
        LET p == push_userdata_ref(s, t) IN
        IF p # "Ok" THEN Fail(p, s)
        ELSE IF n < USER_VALUE_MAXSLOT THEN Out("Ok", s.uv[n], s)
        ELSE IF ~s.uvt.is_table THEN Fail("RuntimeError", s)
        ELSE Out("Ok", s.uvt.e[getn(n)], s)

\* get_nth_user_value with n <= USER_VALUE_MAXSLOT as the inline test: index
\* USER_VALUE_MAXSLOT reads the slot that holds the overflow table.
get_nth_user_value_inline_maxslot(s, t, n) ==
    IF n < 1 \/ n > U16_MAX THEN Fail("RuntimeError", s)
    ELSE
        LET p == push_userdata_ref(s, t) IN
        IF p # "Ok" THEN Fail(p, s)
        ELSE IF n < USER_VALUE_MAXSLOT THEN Out("Ok", s.uv[n], s)
        ELSE IF n = USER_VALUE_MAXSLOT
             THEN Out("Ok", IF s.uvt.is_table THEN "table" ELSE "nil", s)
        ELSE IF ~s.uvt.is_table THEN Out("Ok", "nil", s)
        ELSE Out("Ok", s.uvt.e[getn(n)], s)

\* get_nth_user_value that drops the result of push_userdata_ref.
get_nth_user_value_unchecked(s, t, n) ==
    IF n < 1 \/ n > U16_MAX THEN Fail("RuntimeError", s)
    ELSE IF n < USER_VALUE_MAXSLOT THEN Out("Ok", s.uv[n], s)
    ELSE IF ~s.uvt.is_table THEN Out("Ok", "nil", s)
    ELSE Out("Ok", s.uvt.e[getn(n)], s)

get_nth_user_value(s, t, n) ==
    IF n < 1 \/ n > U16_MAX THEN Fail("RuntimeError", s)
    ELSE
        LET p == push_userdata_ref(s, t) IN
        IF p # "Ok" THEN Fail(p, s)
        ELSE IF n < USER_VALUE_MAXSLOT THEN Out("Ok", s.uv[n], s)
        ELSE IF ~s.uvt.is_table THEN Out("Ok", "nil", s)
        ELSE Out("Ok", s.uvt.e[getn(n)], s)

(***************************************************************************)
(* The state machine: one handle, its callers' views, its user values.     *)
(***************************************************************************)
NoOp == [op |-> "new", arg |-> "-", n |-> 0, v |-> "-", res |-> "Ok", out |-> "-"]

NoCall == [op |-> "new", kind |-> "-", res |-> "Ok"]

\* A handle fresh from Lua::create_userdata.
HandleNew ==
    /\ destructed = FALSE
    /\ flag = 0
    /\ refs = 0
    /\ muts = 0
    /\ moved = 0
    /\ uservalues = [i \in InlineSlots |-> "nil"]
    /\ uvtable = NoTable
    /\ last = NoOp
    /\ everset = {}

\* A wrapper nobody has locked, with no call in progress.
ProxyNew ==
    /\ gflag = 0
    /\ gshared = 0
    /\ gexcl = 0
    /\ inner = 0
    /\ stack = <<>>
    /\ plast = NoCall

Init ==
    /\ tt \in TypeTables
    /\ HandleNew
    /\ policy = "Mutable"
    /\ ProxyNew
    /\ mt = MetatableNew
    /\ mlast = NoMeta
    /\ reg = RegNew
    /\ lstr = create_string(<<>>)
    /\ pairs_iter = NoIter
    /\ made = NoneMade

\* One call of a handle operation: the handler's state change, the view it
\* returned (if any) kept by the caller, and the call recorded in last.
Apply(op, arg, n, v, o) ==
    /\ destructed' = o.s.destructed
    /\ flag' = o.s.flag
    /\ moved' = o.s.moved
    /\ uservalues' = o.s.uv
    /\ uvtable' = o.s.uvt
    /\ refs' = IF o.out = "Ref" THEN refs + 1 ELSE refs
    /\ muts' = IF o.out = "RefMut" THEN muts + 1 ELSE muts
    /\ last' = [op |-> op, arg |-> arg, n |-> n, v |-> v, res |-> o.res, out |-> o.out]
    /\ UNCHANGED tt

\* The variables the handle operations of Spec leave alone.
others == <<everset, pvars, mvars, reg, lstr, pairs_iter, made>>

Step(op, arg, n, v, o) == Apply(op, arg, n, v, o) /\ UNCHANGED others

Is(T) == Step("is", T, 0, "-", is(St, tt, T))

Borrow(T) == flag < MaxViews /\ Step("borrow", T, 0, "-", borrow(St, tt, T))

BorrowMut(T) == Step("borrow_mut", T, 0, "-", borrow_mut(St, tt, T))

DynBorrow(U) == flag < MaxViews /\ Step("dyn_borrow", U, 0, "-", dyn_borrow(St, tt, U))

DynBorrowMut(U) == Step("dyn_borrow_mut", U, 0, "-", dyn_borrow_mut(St, tt, U))

Take(T) == Step("take", T, 0, "-", take(St, tt, T))

CloneOrTake(T) == Step("clone_or_take", T, 0, "-", clone_or_take(St, tt, T))

DynTake(U) == Step("dyn_take", U, 0, "-", dyn_take(St, tt, U))

DynCloneOrTake(U) == Step("dyn_clone_or_take", U, 0, "-", dyn_clone_or_take(St, tt, U))

ConvertInto == Step("convert_into", "R", 0, "-", convert_into(St, tt))

SetNthUserValue(n, v) ==
    Step("set_nth_user_value", "-", n, v, set_nth_user_value(St, tt, n, v))

GetNthUserValue(n) ==
    Step("get_nth_user_value", "-", n, "-", get_nth_user_value(St, tt, n))

\* A caller drops a Ref: the RefCell's reader count goes down by one.
DropRef ==
    /\ refs > 0
    /\ refs' = refs - 1
    /\ flag' = flag - 1
    /\ last' = [NoOp EXCEPT !.op = "drop_ref"]
    /\ UNCHANGED <<tt, destructed, muts, moved, uservalues, uvtable, others>>

\* A caller drops a RefMut: the RefCell's writer mark is undone.
DropRefMut ==
    /\ muts > 0
    /\ muts' = muts - 1
    /\ flag' = flag + 1
    /\ last' = [NoOp EXCEPT !.op = "drop_ref_mut"]
    /\ UNCHANGED <<tt, destructed, refs, moved, uservalues, uvtable, others>>

Next ==
    \/ \E T \in TypeIds : Is(T)
    \/ \E T \in TypeIds : Borrow(T)
    \/ \E T \in TypeIds : BorrowMut(T)
    \/ \E U \in DynTraits : DynBorrow(U)
    \/ \E U \in DynTraits : DynBorrowMut(U)
    \/ \E T \in TypeIds : Take(T)
    \/ \E T \in TypeIds : CloneOrTake(T)
    \/ \E U \in DynTraits : DynTake(U)
    \/ \E U \in DynTraits : DynCloneOrTake(U)
    \/ ConvertInto
    \/ \E n \in SlotArgs, v \in LuaValues : SetNthUserValue(n, v)
    \/ \E n \in SlotArgs : GetNthUserValue(n)
    \/ DropRef
    \/ DropRefMut

Spec == Init /\ [][Next]_vars

(***************************************************************************)
(* The proxy layer.  The handle stores a wrapper T (Rc<RefCell<U>>,        *)
(* Arc<RwLock<U>>, ...) whose UserData implementation registers U's        *)
(* methods through UserDataMethodsProxy / UserDataFieldsProxy.  A call of  *)
(* a forwarded method first borrows the handle's own cell (flag), then     *)
(* takes the wrapper's guard on the inner value (gflag), then runs U's     *)
(* callback; the callback may call a second method before it returns.      *)
(***************************************************************************)
\* Deepest nesting of forwarded calls.
MaxDepth == 2

\* Guards of each kind held outside any call.
MaxGuards == 1

\* Largest value the inner counter is driven to.
MaxCount == 2

Policies == {"Mutable", "Immutable"}

\* The receiver-taking entry points of UserDataMethods and UserDataFields.
MethodKinds ==
    {"method", "method_mut", "meta_method", "meta_method_mut",
     "field_get", "field_set"}

\* Entry points whose callback takes &mut U.
IsMut(k) == k \in {"method_mut", "meta_method_mut", "field_set"}

\* The wrapper type registered for the handle of the proxy layer.
WrapperTable ==
    [id |-> "T1", clone |-> TRUE, traits |-> {}, copy |-> FALSE, into |-> FALSE]

ProxySt == [flag |-> flag, gflag |-> gflag, inner |-> inner, stack |-> stack]

\* NonBlockingGuardedBorrow::try_nonblocking_guarded_borrow of the wrapper
\* (RefCell::try_borrow, RwLock::try_read): refused under a writer.
try_nonblocking_guarded_borrow(g) ==
    IF g >= 0 THEN [res |-> "Ok", gflag |-> g + 1]
    ELSE [res |-> "Err", gflag |-> g]

\* NonBlockingGuardedMutBorrowMut::try_nonblocking_guarded_mut_borrow_mut
\* (RefCell::try_borrow_mut, RwLock::try_write): refused under any guard.
try_nonblocking_guarded_mut_borrow_mut(g) ==
    IF g = 0 THEN [res |-> "Ok", gflag |-> -1]
    ELSE [res |-> "Err", gflag |-> g]

\* The closure of add_method / add_meta_method / add_field_method_get under
\* the Mutable marker, up to the call of U's callback: "Enter" when it is
\* called.
add_method(g) ==
    LET guard == try_nonblocking_guarded_borrow(g) IN
    IF guard.res # "Ok" THEN [res |-> "UserDataProxyBorrowError", gflag |-> g]
    ELSE [res |-> "Enter", gflag |-> guard.gflag]

\* An Immutable read closure that asks for the guard the Mutable write
\* closure asks for.
Immutable_add_method_exclusive(g) ==
    LET guard == try_nonblocking_guarded_mut_borrow_mut(g) IN
    IF guard.res # "Ok" THEN [res |-> "UserDataProxyBorrowError", gflag |-> g]
    ELSE [res |-> "Enter", gflag |-> guard.gflag]

\* The closure of add_method / add_meta_method / add_field_method_get under
\* the Immutable marker.
Immutable_add_method(g) ==
    LET guard == try_nonblocking_guarded_borrow(g) IN
    IF guard.res # "Ok" THEN [res |-> "UserDataProxyBorrowError", gflag |-> g]
    ELSE [res |-> "Enter", gflag |-> guard.gflag]

\* The Mutable closure with the test of the shared guard: readers admitted.
Mutable_add_method_mut_shared(g) ==
    LET guard == try_nonblocking_guarded_borrow(g) IN
    IF guard.res # "Ok" THEN [res |-> "UserDataProxyBorrowMutError", gflag |-> g]
    ELSE [res |-> "Enter", gflag |-> -1]

\* The closure of add_method_mut / add_meta_method_mut /
\* add_field_method_set under the Mutable marker.
Mutable_add_method_mut(g) ==
    LET guard == try_nonblocking_guarded_mut_borrow_mut(g) IN
    IF guard.res # "Ok" THEN [res |-> "UserDataProxyBorrowMutError", gflag |-> g]
    ELSE [res |-> "Enter", gflag |-> guard.gflag]

\* The closure of UserDataFieldsProxy's add_field_method_get under the
\* Mutable marker.
Mutable_add_field_method_get(g) ==
    LET guard == try_nonblocking_guarded_borrow(g) IN
    IF guard.res # "Ok" THEN [res |-> "UserDataProxyBorrowError", gflag |-> g]
    ELSE [res |-> "Enter", gflag |-> guard.gflag]

\* The closure of UserDataFieldsProxy's add_field_method_set under the
\* Mutable marker.
Mutable_add_field_method_set(g) ==
    LET guard == try_nonblocking_guarded_mut_borrow_mut(g) IN
    IF guard.res # "Ok" THEN [res |-> "UserDataProxyBorrowMutError", gflag |-> g]
    ELSE [res |-> "Enter", gflag |-> guard.gflag]

\* The Immutable marker forwarding mutable access like the Mutable one.
Immutable_add_method_mut_forwarding(g) == Mutable_add_method_mut(g)

\* The closure the Immutable marker registers in place of a mutable entry
\* point: it ignores its receiver and its arguments.
Immutable_add_method_mut(g) ==
    [res |-> "UserDataProxyBorrowMutError", gflag |-> g]

\* The registration that does not look at the marker: the Mutable closures
\* under both policies.
proxy_closure_one_policy(p, k, g) ==
    IF ~IsMut(k) THEN add_method(g) ELSE Mutable_add_method_mut(g)

\* The closure registered for an entry point of kind k under policy p.
proxy_closure(p, k, g) ==
    IF p = "Mutable"
    THEN IF k = "field_get" THEN Mutable_add_field_method_get(g)
         ELSE IF k = "field_set" THEN Mutable_add_field_method_set(g)
         ELSE IF IsMut(k) THEN Mutable_add_method_mut(g) ELSE add_method(g)
    ELSE IF IsMut(k) THEN Immutable_add_method_mut(g) ELSE Immutable_add_method(g)

\* The two layers in the other order: the closure's guard is asked for
\* before the handle's cell is borrowed.
box_method_guard_first(ps, p, k) ==
    LET b == IF IsMut(k) THEN try_borrow_mut(ps.flag) ELSE try_borrow(ps.flag)
        c == proxy_closure(p, k, ps.gflag)
    IN  IF c.res # "Enter" THEN [res |-> c.res, ps |-> ps]
        ELSE IF b.res # "Ok" THEN [res |-> b.res, ps |-> ps]
        ELSE [res |-> "Enter",
              ps |-> [ps EXCEPT !.flag = b.flag, !.gflag = c.gflag,
                                !.stack = Append(@, [kind |-> k])]]

\* The callback the method registry builds around a registered closure
\* (StaticUserDataMethods::box_method / box_method_mut): it borrows the
\* handle's cell, shared for a Fn(&T) closure and exclusive for an
\* FnMut(&mut T) one, and calls the closure on the borrowed wrapper.  When
\* U's callback is entered the call is pushed on the stack and both the
\* view of the cell and the guard stay held until the callback returns.
box_method(ps, p, k) ==
    LET b == IF IsMut(k) THEN try_borrow_mut(ps.flag) ELSE try_borrow(ps.flag)
        c == proxy_closure(p, k, ps.gflag)
    IN  IF b.res # "Ok" THEN [res |-> b.res, ps |-> ps]
        ELSE IF c.res # "Enter" THEN [res |-> c.res, ps |-> ps]
        ELSE [res |-> "Enter",
              ps |-> [ps EXCEPT !.flag = b.flag, !.gflag = c.gflag,
                                !.stack = Append(@, [kind |-> k])]]

\* The closure keeps the guard only when U's callback succeeded.
closure_exit_leaks_on_error(g, k, r) ==
    IF r # "Ok" THEN g
    ELSE IF IsMut(k) THEN g + 1 ELSE g - 1

\* U's callback returned r: the closure returns r and its guard, a local
\* of the closure, is dropped.
closure_exit(g, k, r) == IF IsMut(k) THEN g + 1 ELSE g - 1

\* The registry's callback returns after the closure: the view of the
\* handle's cell is dropped.  d is what U's callback added to the counter.
box_return(ps, r, d) ==
    LET k == ps.stack[Len(ps.stack)].kind IN
    [ps EXCEPT !.gflag = closure_exit(@, k, r),
               !.flag = IF IsMut(k) THEN @ + 1 ELSE @ - 1,
               !.inner = @ + d,
               !.stack = SubSeq(@, 1, Len(@) - 1)]

\* The receiver-less entry points: add_function, add_function_mut,
\* add_meta_function, add_meta_function_mut, add_field_function_get,
\* add_field_function_set.
FunctionKinds ==
    {"function", "function_mut", "meta_function", "meta_function_mut",
     "field_function_get", "field_function_set"}

\* A proxy that wraps functions like methods: the shared guard is taken
\* around the call of the function.
add_function_guarded(g, r) ==
    LET guard == try_nonblocking_guarded_borrow(g) IN
    IF guard.res # "Ok" THEN [res |-> "UserDataProxyBorrowError", gflag |-> g]
    ELSE [res |-> r, gflag |-> g]

\* What is registered by add_function and the other receiver-less entry
\* points under the Mutable marker: the given function itself.  Called
\* with the guard at g it returns its own result r.
Mutable_add_function(g, r) == [res |-> r, gflag |-> g]

\* The same under the Immutable marker.
Immutable_add_function(g, r) == [res |-> r, gflag |-> g]

proxy_function(p, g, r) ==
    IF p = "Mutable" THEN Mutable_add_function(g, r) ELSE Immutable_add_function(g, r)

\* The callback the registry builds around a registered function: there is
\* no receiver, so the handle's cell is not borrowed.
box_function(ps, p, r) ==
    LET c == proxy_function(p, ps.gflag, r) IN
    [res |-> c.res, ps |-> [ps EXCEPT !.gflag = c.gflag]]

\* What the proxy actions leave alone.
pothers ==
    <<tt, destructed, refs, muts, moved, uservalues, uvtable, last, everset,
      policy, mvars, reg, lstr, pairs_iter, made>>

ProxyApply(ps) ==
    /\ flag' = ps.flag
    /\ gflag' = ps.gflag
    /\ inner' = ps.inner
    /\ stack' = ps.stack

\* Lua calls an entry point of kind k on the handle, from the top level
\* or from inside the callback that is running.
Call(k) ==
    /\ Len(stack) < MaxDepth
    /\ LET o == box_method(ProxySt, policy, k) IN
       /\ ProxyApply(o.ps)
       /\ plast' = [op |-> "call", kind |-> k, res |-> o.res]
    /\ UNCHANGED <<pothers, gshared, gexcl>>

\* Lua calls a receiver-less entry point of kind k; the function registered
\* for it runs and returns r.
CallFunction(k, r) ==
    /\ LET o == box_function(ProxySt, policy, r) IN
       /\ ProxyApply(o.ps)
       /\ plast' = [op |-> "call", kind |-> k, res |-> o.res]
    /\ UNCHANGED <<pothers, gshared, gexcl>>

\* The innermost running callback returns r, having added d to the counter.
Return(r, d) ==
    /\ stack # <<>>
    /\ d = 1 => IsMut(stack[Len(stack)].kind) /\ inner < MaxCount
    /\ ProxyApply(box_return(ProxySt, r, d))
    /\ plast' = [op |-> "return", kind |-> stack[Len(stack)].kind, res |-> r]
    /\ UNCHANGED <<pothers, gshared, gexcl>>

\* Rust code holding another clone of the wrapper takes a shared guard on
\* the inner value and keeps it.
HoldShared ==
    /\ gshared < MaxGuards
    /\ LET g == try_nonblocking_guarded_borrow(gflag) IN
       /\ g.res = "Ok"
       /\ gflag' = g.gflag
    /\ gshared' = gshared + 1
    /\ plast' = [NoCall EXCEPT !.op = "hold_shared"]
    /\ UNCHANGED <<pothers, flag, gexcl, inner, stack>>

\* ... or an exclusive guard.
HoldExcl ==
    /\ gexcl < MaxGuards
    /\ LET g == try_nonblocking_guarded_mut_borrow_mut(gflag) IN
       /\ g.res = "Ok"
       /\ gflag' = g.gflag
    /\ gexcl' = gexcl + 1
    /\ plast' = [NoCall EXCEPT !.op = "hold_excl"]
    /\ UNCHANGED <<pothers, flag, gshared, inner, stack>>

ReleaseShared ==
    /\ gshared > 0
    /\ gshared' = gshared - 1
    /\ gflag' = gflag - 1
    /\ plast' = [NoCall EXCEPT !.op = "release_shared"]
    /\ UNCHANGED <<pothers, flag, gexcl, inner, stack>>

ReleaseExcl ==
    /\ gexcl > 0
    /\ gexcl' = gexcl - 1
    /\ gflag' = gflag + 1
    /\ plast' = [NoCall EXCEPT !.op = "release_excl"]
    /\ UNCHANGED <<pothers, flag, gshared, inner, stack>>

CallbackResults == {"Ok", "CallbackError"}

InitProxy ==
    /\ tt = WrapperTable
    /\ HandleNew
    /\ policy \in Policies
    /\ ProxyNew
    /\ mt = MetatableNew
    /\ mlast = NoMeta
    /\ reg = RegNew
    /\ lstr = create_string(<<>>)
    /\ pairs_iter = NoIter
    /\ made = NoneMade

NextProxy ==
    \/ \E k \in MethodKinds : Call(k)
    \/ \E r \in CallbackResults, d \in {0, 1} : Return(r, d)
    \/ \E k \in FunctionKinds, r \in CallbackResults : CallFunction(k, r)
    \/ HoldShared
    \/ HoldExcl
    \/ ReleaseShared
    \/ ReleaseExcl
    \/ Borrow(tt.id)
    \/ BorrowMut(tt.id)
    \/ DropRef
    \/ DropRefMut

SpecProxy == InitProxy /\ [][NextProxy]_vars

(***************************************************************************)
(* UserDataMetatable and AnyUserData::equals.  t is the metatable of the   *)
(* handle's type; the operators return the result, the value handed back   *)
(* and the metatable afterwards.                                           *)
(***************************************************************************)
MtOut(res, out, t) == [res |-> res, out |-> out, mt |-> t]

\* UserDataMetatable::get, for V = Value.
metatable_get(t, key) ==
    IF ~validate(key) THEN MtOut("MetaMethodRestricted", "-", t)
    ELSE MtOut("Ok", t[name(key)], t)

\* set that only validates its key, as get does.
metatable_set_validate_only(t, key, v) ==
    IF ~validate(key) THEN MtOut("MetaMethodRestricted", "-", t)
    ELSE MtOut("Ok", "-", [t EXCEPT ![name(key)] = v])

\* UserDataMetatable::set
metatable_set(t, key, v) ==
    IF ~validate(key) THEN MtOut("MetaMethodRestricted", "-", t)
    ELSE IF MetaMethodEq(key, Index) \/ MetaMethodEq(key, NewIndex)
    THEN MtOut("MetaMethodRestricted", "-", t)
    ELSE MtOut("Ok", "-", [t EXCEPT ![name(key)] = v])

\* contains with the test of set: the cached entries are refused too.
metatable_contains_like_set(t, key) ==
    IF ~validate(key) THEN MtOut("MetaMethodRestricted", "-", t)
    ELSE IF MetaMethodEq(key, Index) \/ MetaMethodEq(key, NewIndex)
    THEN MtOut("MetaMethodRestricted", "-", t)
    ELSE MtOut("Ok", t[name(key)] # "nil", t)

\* UserDataMetatable::contains
metatable_contains(t, key) ==
    IF ~validate(key) THEN MtOut("MetaMethodRestricted", "-", t)
    ELSE MtOut("Ok", t[name(key)] # "nil", t)

\* Function::call on the value stored under __eq, converted to bool; a
\* value that is no function fails the conversion to Function.
call_eq(f) ==
    CASE f = "fn_true" -> MtOut("Ok", TRUE, "-")
      [] f = "fn_false" -> MtOut("Ok", FALSE, "-")
      [] f = "fn_err" -> MtOut("CallbackError", "-", "-")
      [] OTHER -> MtOut("FromLuaConversionError", "-", "-")

\* The handles equals is called with: the handle itself, or another one,
\* live or destructed, of the same or of another type.
OtherHandles ==
    {[same |-> TRUE, destructed |-> destructed, id |-> tt.id]}
        \cup [same : {FALSE}, destructed : BOOLEAN, id : TypeIds]

\* AnyUserData::get_raw_metatable of the handle b: the metatable is
\* identified by the TypeId it was registered for.
get_raw_metatable(b) ==
    IF b.destructed THEN [res |-> "UserDataDestructed", mt |-> "-"]
    ELSE [res |-> "Ok", mt |-> b.id]

\* AnyUserData::equals(self, b); m is the metatable of self's type.
equals(s, t, m, b) ==
    LET mt_self == get_raw_metatable([destructed |-> s.destructed, id |-> t.id])
        mt_other == get_raw_metatable(b)
    IN  IF b.same THEN MtOut("Ok", TRUE, m)
        ELSE IF mt_self.res # "Ok" THEN MtOut(mt_self.res, "-", m)
        ELSE IF mt_other.res # "Ok" THEN MtOut(mt_other.res, "-", m)
        ELSE IF mt_self.mt # mt_other.mt THEN MtOut("Ok", FALSE, m)
        ELSE IF m[S.eq] # "nil"
        THEN [call_eq(m[S.eq]) EXCEPT !.mt = m]
        ELSE MtOut("Ok", FALSE, m)

\* impl PartialEq for AnyUserData: the two Lua references are compared
\* with lua_rawequal; no metatable is looked at.
partial_eq(m, b) == MtOut("Ok", b.same, m)

\* What the metatable operations leave alone.
mothers == <<hvars, everset, pvars, reg, lstr, pairs_iter, made>>

MtApply(op, key, v, b, o) ==
    /\ mt' = o.mt
    /\ mlast' = [op |-> op, key |-> key, v |-> v, b |-> b, res |-> o.res, out |-> o.out]
    /\ UNCHANGED mothers

MtGet(key) == MtApply("get", key, "nil", NoB, metatable_get(mt, key))

MtSet(key, v) == MtApply("set", key, v, NoB, metatable_set(mt, key, v))

MtContains(key) == MtApply("contains", key, "nil", NoB, metatable_contains(mt, key))

Equals(b) == MtApply("equals", Eq, "nil", b, equals(St, tt, mt, b))

PartialEq(b) == MtApply("eq", Eq, "nil", b, partial_eq(mt, b))

\* key.validate(): Ok(key) or Err(MetaMethodRestricted(name)).
Validate(key) ==
    MtApply("validate", key, "nil", NoB,
            IF validate(key) THEN MtOut("Ok", key, mt)
            ELSE MtOut("MetaMethodRestricted", "-", mt))

NextMeta ==
    \/ \E key \in Keys : MtGet(key)
    \/ \E key \in Keys, v \in MtValues : MtSet(key, v)
    \/ \E key \in Keys : MtContains(key)
    \/ \E b \in OtherHandles : Equals(b)
    \/ \E b \in OtherHandles : PartialEq(b)
    \/ \E key \in Keys : Validate(key)
    \/ \E T \in TypeIds : Take(T)

InitMeta ==
    /\ Init
    /\ tt.id = "T1" /\ ~tt.clone /\ ~tt.copy /\ ~tt.into /\ tt.traits = {}

SpecMeta == InitMeta /\ [][NextMeta]_vars

(***************************************************************************)
(* A userdata with a method and a field, as in the example of the UserData *)
(* trait: MyUserData(i32) with the field getter "val" and the mutable      *)
(* method "add", stored in the handle itself.                              *)
(***************************************************************************)
\* Largest value the counter is driven to.
CounterMax == 10

\* Arguments passed to add.
AddArgs == {1, 5}

\* |_, this, value: i32| { this.0 += value; Ok(()) }
MyUserData_add(c, value) == c + value

\* |_, this| Ok(this.0)
MyUserData_val(c) == c

\* A call of the method registered with add_method_mut: the registry's
\* callback borrows the handle's cell exclusively, runs the closure on the
\* value and drops the view when the closure has returned.
call_add(s, c, value) ==
    LET b == try_borrow_mut(s.flag) IN
    IF b.res # "Ok" THEN [res |-> b.res, c |-> c, read |-> 0]
    ELSE [res |-> "Ok", c |-> MyUserData_add(c, value), read |-> 0]

\* A read of the field registered with add_field_method_get: the same with
\* a shared view.
call_val(s, c) ==
    LET b == try_borrow(s.flag) IN
    IF b.res # "Ok" THEN [res |-> b.res, c |-> c, read |-> 0]
    ELSE [res |-> "Ok", c |-> c, read |-> MyUserData_val(c)]

\* What a call of a method or field of the stored value leaves alone.
cothers ==
    <<tt, destructed, flag, refs, muts, moved, uservalues, uvtable, everset,
      policy, gflag, gshared, gexcl, stack, plast, mvars, reg, lstr, pairs_iter, made>>

\* The call is recorded in last: n is the argument of add, and for val the
\* number that was read.
CounterAdd(value) ==
    /\ inner + value <= CounterMax
    /\ LET o == call_add(St, inner, value) IN
       /\ inner' = o.c
       /\ last' = [op |-> "add", arg |-> "-", n |-> value, v |-> "-",
                   res |-> o.res, out |-> "-"]
    /\ UNCHANGED cothers

CounterVal ==
    /\ LET o == call_val(St, inner) IN
       /\ inner' = o.c
       /\ last' = [op |-> "val", arg |-> "-", n |-> o.read, v |-> "-",
                   res |-> o.res, out |-> "-"]
    /\ UNCHANGED cothers

InitCounter ==
    /\ Init
    /\ tt = WrapperTable

NextCounter ==
    \/ \E value \in AddArgs : CounterAdd(value)
    \/ CounterVal
    \/ Borrow("T1")
    \/ BorrowMut("T1")
    \/ DropRef
    \/ DropRefMut

SpecCounter == InitCounter /\ [][NextCounter]_vars

(***************************************************************************)
(* Metatable creation for a type T: UserData.                              *)
(***************************************************************************)
\* The hook before the hook's turn: the fields are registered first.
RegistrationOrder_fields_first == <<"add_fields", "on_metatable_init", "add_methods">>

\* The calls made when the metatable of a type is created, in order.
RegistrationOrder == <<"on_metatable_init", "add_fields", "add_methods">>

\* T::on_metatable_init(table) declaring D on the type table.
on_metatable_init(r, D) ==
    [r EXCEPT !.decl = @ \cup D, !.hook = TRUE, !.hookdecl = D, !.step = @ + 1]

\* An entry is attached to the metatable: the first one sees the type
\* table as it is at that moment.
attach(r, k) ==
    [r EXCEPT !.attached = @ \/ k > 0,
              !.seen = IF ~r.attached /\ k > 0 THEN r.decl ELSE @,
              !.step = @ + 1]

\* T::add_fields(fields) attaching k fields.
add_fields(r, k) == [attach(r, k) EXCEPT !.fields = @ + k]

\* T::add_methods(methods) attaching k callables.
add_methods(r, k) == [attach(r, k) EXCEPT !.methods = @ + k]

\* The stage whose turn it is.
Stage == IF reg.step < Len(RegistrationOrder) THEN RegistrationOrder[reg.step + 1] ELSE "done"

rothers == <<hvars, everset, pvars, mvars, lstr, pairs_iter, made>>

OnMetatableInit(D) ==
    /\ Stage = "on_metatable_init"
    /\ reg' = on_metatable_init(reg, D)
    /\ UNCHANGED rothers

AddFields(k) ==
    /\ Stage = "add_fields"
    /\ reg' = add_fields(reg, k)
    /\ UNCHANGED rothers

AddMethods(k) ==
    /\ Stage = "add_methods"
    /\ reg' = add_methods(reg, k)
    /\ UNCHANGED rothers

NextReg ==
    \/ \E D \in SUBSET Caps : OnMetatableInit(D)
    \/ \E k \in 0..MaxEntries : AddFields(k)
    \/ \E k \in 0..MaxEntries : AddMethods(k)

SpecReg == InitCounter /\ [][NextReg]_vars

(***************************************************************************)
(* The wrapper types whose UserData impl registers U's methods and fields  *)
(* through the proxies.                                                    *)
(***************************************************************************)
StretchedRef == "Elastic<StretchedRef<T>>"

Wrappers ==
    {"Arc<AtomicRefCell<T>>", "Elastic<StretchedMut<T>>", StretchedRef,
     "Rc<RefCell<T>>", "Arc<Mutex<T>>", "Arc<RwLock<T>>"}

\* UserDataMethodsProxy::new / UserDataFieldsProxy::new and ::new_immutable:
\* the marker of the proxy they build.
new == "Mutable"

new_immutable == "Immutable"

\* A registration that builds every proxy with new.
WrapperPolicy_new_everywhere(w) == new

\* The constructor add_methods and add_fields of the wrapper w call.
WrapperPolicy(w) == IF w = StretchedRef THEN new_immutable ELSE new

\* on_metatable_init of each of these wrappers calls table.add_clone().
WrapperTypeTable(w) ==
    [id |-> w, clone |-> TRUE, traits |-> {}, copy |-> FALSE, into |-> FALSE]

InitWrap ==
    /\ \E w \in Wrappers : tt = WrapperTypeTable(w) /\ policy = WrapperPolicy(w)
    /\ HandleNew
    /\ ProxyNew
    /\ mt = MetatableNew
    /\ mlast = NoMeta
    /\ reg = RegNew
    /\ lstr = create_string(<<>>)
    /\ pairs_iter = NoIter
    /\ made = NoneMade

SpecWrap == InitWrap /\ [][NextProxy]_vars

(***************************************************************************)
(* UserDataMetatable::pairs and the iterator it returns.                   *)
(***************************************************************************)
\* Entries a caller has added to the metatable before it asks for the pairs.
MaxUserEntries == 1

UserKeyNames == {S.eq, S.foo, S.mlu}

\* The metatables iterated: the registered one with some entries set.
PairsTables ==
    {[n \in KeyNames |-> IF n \in U THEN "fn_true" ELSE MetatableNew[n]] :
        U \in {X \in SUBSET UserKeyNames : Cardinality(X) <= MaxUserEntries}}

\* The orders in which Lua's next can traverse the keys K.
RECURSIVE Orders(_)
Orders(K) ==
    IF K = {} THEN {<<>>}
    ELSE UNION {{<<k>> \o o : o \in Orders(K \ {k})} : k \in K}

\* UserDataMetatable::pairs: Table::pairs of the metatable; the iterator
\* holds the entries it has still to visit, in the order of the traversal.
pairs(t, order) ==
    [started |-> TRUE, done |-> FALSE, rest |-> order, yielded |-> <<>>]

NoItem == [some |-> FALSE, key |-> Eq, value |-> "nil", rest |-> <<>>]

\* An iterator that ends at the first restricted key instead of skipping it.
RECURSIVE UserDataMetatablePairs_next_stops(_, _)
UserDataMetatablePairs_next_stops(rest, t) ==
    IF rest = <<>> THEN NoItem
    ELSE IF validate(From(Head(rest)))
         THEN [some |-> TRUE, key |-> From(Head(rest)), value |-> t[Head(rest)],
               rest |-> Tail(rest)]
         ELSE NoItem

\* UserDataMetatablePairs::next: takes entries from the table's iterator
\* until one has a key that validates, and yields it with the key
\* converted to MetaMethod; None when the table's iterator is exhausted.
\* (V is Value, so the conversion of key and value cannot fail.)
RECURSIVE UserDataMetatablePairs_next(_, _)
UserDataMetatablePairs_next(rest, t) ==
    IF rest = <<>> THEN NoItem
    ELSE IF validate(From(Head(rest)))
         THEN [some |-> TRUE, key |-> From(Head(rest)), value |-> t[Head(rest)],
               rest |-> Tail(rest)]
         ELSE UserDataMetatablePairs_next(Tail(rest), t)

iothers == <<hvars, everset, pvars, mvars, reg, lstr, made>>

Pairs(order) ==
    /\ ~pairs_iter.started
    /\ pairs_iter' = pairs(mt, order)
    /\ UNCHANGED iothers

PairsNext ==
    /\ pairs_iter.started
    /\ ~pairs_iter.done
    /\ LET o == UserDataMetatablePairs_next(pairs_iter.rest, mt) IN
       pairs_iter' =
           [pairs_iter EXCEPT
               !.done = ~o.some,
               !.rest = o.rest,
               !.yielded = IF o.some
                           THEN Append(@, [key |-> o.key, value |-> o.value])
                           ELSE @]
    /\ UNCHANGED iothers

InitPairs ==
    /\ tt = WrapperTable
    /\ HandleNew
    /\ policy = "Mutable"
    /\ ProxyNew
    /\ mt \in PairsTables
    /\ mlast = NoMeta
    /\ reg = RegNew
    /\ lstr = create_string(<<>>)
    /\ pairs_iter = NoIter
    /\ made = NoneMade

NextPairs ==
    \/ \E order \in Orders({n \in KeyNames : mt[n] # "nil"}) : Pairs(order)
    \/ PairsNext

SpecPairs == InitPairs /\ [][NextPairs]_vars

(***************************************************************************)
(* TryCloneToUserDataExt: a new handle from a clone of a value.            *)
(***************************************************************************)
\* Handles try_clone_to_user_data is let make.
MaxMade == 2

\* The type tables of the value: with or without a clone function, with or
\* without dyn Send.
CloneTypeTables ==
    [id : {"T1"}, clone : BOOLEAN, traits : SUBSET {"Send"},
     copy : {FALSE}, into : {FALSE}]

\* The clone function of the type table, for the counter: an equal value.
clone_fn(c) == c

\* Lua::make_userdata: one more handle, holding the value v.
make_userdata(md, v) == [count |-> md.count + 1, value |-> v]

\* try_clone_to_user_data that does not ask for dyn Send.
try_clone_to_user_data_any_thread(t, md, c) ==
    IF ~t.clone THEN [res |-> "UserDataDynMismatch", made |-> md]
    ELSE [res |-> "Ok", made |-> make_userdata(md, clone_fn(c))]

\* T::try_clone_to_user_data(&self, lua) for the value c.
try_clone_to_user_data(t, md, c) ==
    IF ~t.clone THEN [res |-> "UserDataDynMismatch", made |-> md]
    ELSE IF Declares(t, "Send") THEN [res |-> "Ok", made |-> make_userdata(md, clone_fn(c))]
    ELSE [res |-> "UserDataDynMismatch", made |-> md]

\* The call is recorded in last with the value it was made on.
TryCloneToUserData ==
    /\ made.count < MaxMade
    /\ LET o == try_clone_to_user_data(tt, made, inner) IN
       /\ made' = o.made
       /\ last' = [op |-> "try_clone_to_user_data", arg |-> "-", n |-> inner,
                   v |-> "-", res |-> o.res,
                   out |-> IF o.res = "Ok" THEN "handle" ELSE "-"]
    /\ UNCHANGED <<tt, destructed, flag, refs, muts, moved, uservalues, uvtable,
                   everset, pvars, mvars, reg, lstr, pairs_iter>>

InitClone ==
    /\ tt \in CloneTypeTables
    /\ HandleNew
    /\ policy = "Mutable"
    /\ ProxyNew
    /\ mt = MetatableNew
    /\ mlast = NoMeta
    /\ reg = RegNew
    /\ lstr = create_string(<<>>)
    /\ pairs_iter = NoIter
    /\ made = NoneMade

NextClone == NextCounter \/ TryCloneToUserData

SpecClone == InitClone /\ [][NextClone]_vars

(***************************************************************************)
(* Views of one Lua string.                                                *)
(***************************************************************************)
sothers == <<hvars, everset, pvars, mvars, reg, pairs_iter, made>>

AsBytes ==
    /\ lstr' = [lstr EXCEPT !.op = "as_bytes", !.res = "Ok", !.out = as_bytes(lstr)]
    /\ UNCHANGED sothers

AsBytesWithNul ==
    /\ lstr' = [lstr EXCEPT !.op = "as_bytes_with_nul", !.res = "Ok",
                            !.out = as_bytes_with_nul(lstr)]
    /\ UNCHANGED sothers

ToStr ==
    /\ lstr' = [lstr EXCEPT !.op = "to_str", !.res = to_str(lstr).res,
                            !.out = to_str(lstr).out]
    /\ UNCHANGED sothers

InitStr ==
    /\ tt = WrapperTable
    /\ HandleNew
    /\ policy = "Mutable"
    /\ ProxyNew
    /\ mt = MetatableNew
    /\ mlast = NoMeta
    /\ reg = RegNew
    /\ \E b \in ByteSeqs : lstr = create_string(b)
    /\ pairs_iter = NoIter
    /\ made = NoneMade

NextStr == AsBytes \/ AsBytesWithNul \/ ToStr

SpecStr == InitStr /\ [][NextStr]_vars

(***************************************************************************)
(* The user values with their history: the same handle, with the indices   *)
(* that were ever set recorded in everset.                                 *)
(***************************************************************************)
InitUV ==
    /\ Init
    /\ tt.id = "T1" /\ ~tt.clone /\ ~tt.copy /\ ~tt.into

UVSet(n, v) ==
    LET o == set_nth_user_value(St, tt, n, v) IN
    /\ Apply("set_nth_user_value", "-", n, v, o)
    /\ everset' = IF o.res = "Ok" THEN everset \cup {n} ELSE everset
    /\ UNCHANGED <<pvars, mvars, reg, lstr, pairs_iter, made>>

UVGet(n) ==
    /\ Apply("get_nth_user_value", "-", n, "-", get_nth_user_value(St, tt, n))
    /\ UNCHANGED <<everset, pvars, mvars, reg, lstr, pairs_iter, made>>

UVTake(T) ==
    /\ Apply("take", T, 0, "-", take(St, tt, T))
    /\ UNCHANGED <<everset, pvars, mvars, reg, lstr, pairs_iter, made>>

UVDynTake(U) ==
    /\ Apply("dyn_take", U, 0, "-", dyn_take(St, tt, U))
    /\ UNCHANGED <<everset, pvars, mvars, reg, lstr, pairs_iter, made>>

NextUV ==
    \/ \E n \in SlotArgs, v \in LuaValues : UVSet(n, v)
    \/ \E n \in SlotArgs : UVGet(n)
    \/ \E T \in TypeIds : UVTake(T)
    \/ \E U \in DynTraits : UVDynTake(U)

SpecUV == InitUV /\ [][NextUV]_vars

(***************************************************************************)
(* Properties.                                                             *)
(***************************************************************************)
Views == refs + muts

\* C1: in every reachable state the cell has no live view, or one or more
\* shared views and no exclusive view, or exactly one exclusive view and no
\* shared view.
C1_SharedXorExclusive ==
    \/ refs = 0 /\ muts = 0
    \/ refs >= 1 /\ muts = 0
    \/ refs = 0 /\ muts = 1

\* borrow_mut was refused while two shared views were live.
C1_Witness ==
    /\ refs = 2
    /\ muts = 0
    /\ last.op = "borrow_mut"
    /\ last.res = "UserDataBorrowMutError"

\* C2: on a live handle of the requested type, borrow succeeds iff no
\* exclusive view is outstanding and else returns UserDataBorrowError;
\* borrow_mut succeeds iff no view at all is outstanding and else returns
\* UserDataBorrowMutError; a failing call leaves flag and views as they were.
C2_BorrowOutcome ==
    [][(~destructed /\ last'.op \in {"borrow", "borrow_mut"} /\ last'.arg = tt.id) =>
         LET granted == IF last'.op = "borrow" THEN muts = 0 ELSE Views = 0 IN
         /\ granted <=> last'.res = "Ok"
         /\ granted /\ last'.op = "borrow" =>
                refs' = refs + 1 /\ muts' = muts /\ flag' = flag + 1
         /\ granted /\ last'.op = "borrow_mut" =>
                refs' = refs /\ muts' = 1 /\ flag' = -1
         /\ ~granted =>
                /\ last'.res = IF last'.op = "borrow" THEN "UserDataBorrowError"
                               ELSE "UserDataBorrowMutError"
                /\ flag' = flag /\ refs' = refs /\ muts' = muts
      ]_vars

\* borrow was refused because an exclusive view is live.
C2_Witness ==
    /\ muts = 1
    /\ last.op = "borrow"
    /\ last.arg = tt.id
    /\ last.res = "UserDataBorrowError"

\* The operations C3 lists.
C3_Ops ==
    {"borrow", "borrow_mut", "dyn_borrow", "dyn_borrow_mut", "take",
     "get_nth_user_value", "set_nth_user_value"}

UserValueOps == {"get_nth_user_value", "set_nth_user_value"}

\* C3 (as stated): after a successful take, every further borrow,
\* borrow_mut, dyn_borrow, dyn_borrow_mut, take, get_nth_user_value and
\* set_nth_user_value on the handle returns UserDataDestructed.
C3_AsStated ==
    [][(destructed /\ last'.op \in C3_Ops) => last'.res = "UserDataDestructed"]_vars

\* C3 (amended): on a destructed handle borrow, borrow_mut, dyn_borrow,
\* dyn_borrow_mut and take return UserDataDestructed, and so do
\* get_nth_user_value and set_nth_user_value for an index in 1..65535; for
\* an index outside that range they return RuntimeError, as on a live handle.
C3_DestructedAfterTake ==
    [][(destructed /\ last'.op \in C3_Ops) =>
         /\ (last'.op \in UserValueOps /\ (last'.n < 1 \/ last'.n > U16_MAX)) =>
                last'.res = "RuntimeError"
         /\ ~(last'.op \in UserValueOps /\ (last'.n < 1 \/ last'.n > U16_MAX)) =>
                last'.res = "UserDataDestructed"
         /\ destructed' /\ moved' = moved /\ flag' = flag /\ Views' = Views
      ]_vars

\* A user value is read from a taken handle whose slot 7 still holds "a".
C3_Witness ==
    /\ destructed
    /\ moved = 1
    /\ uservalues[7] = "a"
    /\ last.op = "get_nth_user_value"
    /\ last.n = 7
    /\ last.res = "UserDataDestructed"

\* C4: take::<T> succeeds only on a live handle whose stored type is T
\* while no shared or exclusive view is outstanding; a successful take moves
\* the value out once and leaves the handle destructed.
C4_TakeGuarded ==
    [][/\ (last'.op = "take" /\ last'.res = "Ok") =>
            /\ ~destructed /\ last'.arg = tt.id
            /\ refs = 0 /\ muts = 0
            /\ destructed' /\ moved = 0 /\ moved' = 1
            /\ flag' = 0 /\ Views' = 0
       /\ moved' <= 1
      ]_vars

C4_Witness ==
    /\ last.op = "take"
    /\ last.res = "Ok"
    /\ last.out = "value"
    /\ destructed
    /\ moved = 1

AllUserValuesCleared ==
    /\ \A i \in InlineSlots : uservalues[i] = "nil"
    /\ ~uvtable.is_table

\* C5: every operation that destructs a handle leaves all of its user-value
\* slots cleared, the inline slots and the overflow table.
C5_ClearedOnDestruct == destructed => AllUserValuesCleared

\* C6: clone_or_take on a type with a clone function never destructs the
\* handle and, when it succeeds, returns a clone and changes nothing; on a
\* live, unborrowed handle of the requested type it succeeds.  On a type
\* without a clone function a successful call returns the moved value and
\* leaves the handle in the state take leaves it in.
C6_CloneOrTake ==
    [][last'.op = "clone_or_take" =>
         /\ tt.clone =>
              /\ destructed' = destructed /\ moved' = moved
              /\ uservalues' = uservalues /\ uvtable' = uvtable
              /\ flag' = flag /\ Views' = Views
              /\ last'.res = "Ok" => last'.out = "clone"
              /\ (~destructed /\ last'.arg = tt.id /\ Views = 0) => last'.res = "Ok"
         /\ (~tt.clone /\ last'.res = "Ok") =>
              LET o == take(St, tt, last'.arg) IN
              /\ o.res = "Ok" /\ last'.out = o.out
              /\ destructed' = o.s.destructed /\ moved' = o.s.moved
              /\ uservalues' = o.s.uv /\ uvtable' = o.s.uvt
              /\ flag' = o.s.flag /\ Views' = Views
              /\ destructed' /\ moved' = moved + 1
      ]_vars

\* A clone was returned from a handle that keeps its user value.
C6_Witness ==
    /\ tt.clone
    /\ last.op = "clone_or_take"
    /\ last.res = "Ok"
    /\ last.out = "clone"
    /\ ~destructed
    /\ moved = 0
    /\ uservalues[1] = "a"

DynBorrowOps == {"dyn_borrow", "dyn_borrow_mut"}

\* C7 (as stated): dyn_borrow and dyn_borrow_mut return UserDataDestructed
\* on a destructed handle, else UserDataDynMismatch when the stored type
\* does not declare the trait, else the borrow error; a live handle with an
\* undeclared trait gets UserDataDynMismatch whatever its borrow-state is.
C7_AsStated ==
    [][last'.op \in DynBorrowOps =>
         LET granted == IF last'.op = "dyn_borrow" THEN muts = 0 ELSE Views = 0
             borrow_error == IF last'.op = "dyn_borrow" THEN "UserDataBorrowError"
                             ELSE "UserDataBorrowMutError" IN
         last'.res = IF destructed THEN "UserDataDestructed"
                     ELSE IF ~Declares(tt, last'.arg) THEN "UserDataDynMismatch"
                     ELSE IF ~granted THEN borrow_error
                     ELSE "Ok"
      ]_vars

\* C7 (amended): dyn_borrow and dyn_borrow_mut return UserDataDestructed on
\* a destructed handle, else the borrow error when a live view conflicts,
\* else UserDataDynMismatch when the stored type does not declare the trait;
\* a live handle with an undeclared trait gets UserDataDynMismatch only when
\* the borrow itself is granted.  A failing call changes no borrow-state.
C7_DynBorrowPrecedence ==
    [][last'.op \in DynBorrowOps =>
         LET granted == IF last'.op = "dyn_borrow" THEN muts = 0 ELSE Views = 0
             borrow_error == IF last'.op = "dyn_borrow" THEN "UserDataBorrowError"
                             ELSE "UserDataBorrowMutError" IN
         /\ last'.res = IF destructed THEN "UserDataDestructed"
                        ELSE IF ~granted THEN borrow_error
                        ELSE IF ~Declares(tt, last'.arg) THEN "UserDataDynMismatch"
                        ELSE "Ok"
         /\ last'.res # "Ok" => flag' = flag /\ refs' = refs /\ muts' = muts
      ]_vars

\* dyn_borrow of an undeclared trait while an exclusive view is live.
C7_Witness ==
    /\ ~destructed
    /\ muts = 1
    /\ last.op = "dyn_borrow"
    /\ ~Declares(tt, last.arg)
    /\ last.res = "UserDataBorrowError"

\* C8: on a live handle dyn_take, dyn_clone_or_take and convert_into never
\* return UserDataDestructed, and dyn_take and dyn_clone_or_take report a
\* trait the stored type does not declare as UserDataDynMismatch.
C8_DestructedOnlyWhenDestructed ==
    [][(~destructed /\ last'.op \in {"dyn_take", "dyn_clone_or_take", "convert_into"}) =>
         /\ last'.res # "UserDataDestructed"
         /\ (/\ last'.op \in {"dyn_take", "dyn_clone_or_take"}
             /\ ~Declares(tt, last'.arg)
             /\ Views = 0) => last'.res = "UserDataDynMismatch"
      ]_vars

\* C9: borrow::<T> and borrow_mut::<T> on a live handle whose stored type is
\* not T return UserDataTypeMismatch in every borrow-state and leave the
\* borrow-state as it was.
C9_TypeMismatch ==
    [][(~destructed /\ last'.op \in {"borrow", "borrow_mut"} /\ last'.arg # tt.id) =>
         /\ last'.res = "UserDataTypeMismatch"
         /\ flag' = flag /\ refs' = refs /\ muts' = muts
      ]_vars

\* borrow_mut of another type is refused with UserDataTypeMismatch while a
\* shared view is live, where borrow_mut of the stored type returns
\* UserDataBorrowMutError.
C9_Witness ==
    /\ ~destructed
    /\ refs = 1
    /\ flag = 1
    /\ last.op = "borrow_mut"
    /\ last.arg # tt.id
    /\ last.res = "UserDataTypeMismatch"

\* C10: is::<T>() returns a boolean in every state of the handle and never
\* reaches its unreachable!() arm.
C10_IsTotal ==
    last.op = "is" => last.res = "Ok" /\ last.out \in {"true", "false"}

InRange(n) == n >= 1 /\ n <= U16_MAX

\* C11: on a live handle set_nth_user_value(n, v) with n in 1..65535
\* succeeds, and a get_nth_user_value(n) that follows it returns v, for the
\* inline slots and for the slots of the overflow table.  (V is Value, whose
\* ToLua and FromLua hand the Lua value through.)
C11_SetGetRoundTrip ==
    [][/\ (~destructed /\ last'.op = "set_nth_user_value" /\ InRange(last'.n)) =>
            last'.res = "Ok"
       /\ (/\ last.op = "set_nth_user_value" /\ last.res = "Ok"
           /\ last'.op = "get_nth_user_value" /\ last'.n = last.n) =>
            last'.res = "Ok" /\ last'.out = last.v
      ]_vars

\* "a" is read back from slot 65535 of the overflow table.
C11_Witness ==
    /\ last.op = "get_nth_user_value"
    /\ last.n = U16_MAX
    /\ last.res = "Ok"
    /\ last.out = "a"
    /\ uvtable.is_table

\* C13: get_nth_user_value and set_nth_user_value with n = 0 or n > 65535
\* return RuntimeError and leave every user-value slot as it was.
C13_IndexOutOfBounds ==
    [][(last'.op \in UserValueOps /\ ~InRange(last'.n)) =>
         /\ last'.res = "RuntimeError"
         /\ uservalues' = uservalues /\ uvtable' = uvtable
      ]_vars

\* set_nth_user_value(65536, "a") was refused on a handle with user values.
C13_Witness ==
    /\ last.op = "set_nth_user_value"
    /\ last.n = U16_MAX + 1
    /\ last.v = "a"
    /\ last.res = "RuntimeError"
    /\ uservalues[7] = "a"
    /\ uvtable.is_table

\* C12: get_nth_user_value(n) on a live handle, for n in 1..65535 that was
\* never set, returns nil and no error, before the overflow table exists
\* and after a set on another slot has created it.
C12_UnsetIsNil ==
    [][(/\ ~destructed
        /\ last'.op = "get_nth_user_value"
        /\ InRange(last'.n)
        /\ last'.n \notin everset) =>
         last'.res = "Ok" /\ last'.out = "nil"
      ]_vars

\* Slot 9 was never set and reads nil from the table that a set of slot 8
\* created.
C12_Witness ==
    /\ ~destructed
    /\ uvtable.is_table
    /\ uvtable.e[getn(8)] = "a"
    /\ 9 \notin everset
    /\ last.op = "get_nth_user_value"
    /\ last.n = 9
    /\ last.res = "Ok"
    /\ last.out = "nil"

\* Calls on the stack whose callback takes &mut U, and the others.
MutFrames == Cardinality({i \in 1..Len(stack) : IsMut(stack[i].kind)})

SharedFrames == Len(stack) - MutFrames

\* The step entered the callback of a call / left the innermost callback.
Pushed == Len(stack') = Len(stack) + 1

Popped == Len(stack') = Len(stack) - 1

\* C14: under the Mutable policy a forwarded mutable call that obtains the
\* guard acquires it exactly once (free before, exclusive after) and
\* releases it exactly once when the inner callback returns, with Ok or
\* with an error; at every moment the lock equals the guards still owed,
\* so with no call running and nothing held outside, no guard is held.
C14_GuardOncePerCall ==
    /\ [][policy = "Mutable" =>
            /\ (Pushed /\ IsMut(stack'[Len(stack')].kind)) =>
                   gflag = 0 /\ gflag' = -1
            /\ (Popped /\ IsMut(stack[Len(stack)].kind)) =>
                   /\ gflag = -1 /\ gflag' = 0
                   /\ plast'.res \in CallbackResults]_vars
    /\ [](policy = "Mutable" =>
            /\ gexcl + MutFrames <= 1
            /\ gflag = IF gexcl + MutFrames = 1 THEN -1 ELSE gshared + SharedFrames
            /\ (stack = <<>> /\ gshared = 0 /\ gexcl = 0) => gflag = 0)

\* A forwarded method_mut whose callback failed has returned: no guard held.
C14_Witness ==
    /\ policy = "Mutable"
    /\ plast = [op |-> "return", kind |-> "method_mut", res |-> "CallbackError"]
    /\ stack = <<>>
    /\ gflag = 0
    /\ inner = 1

\* The step is a call of the entry point k (the handle operations of the
\* proxy layer leave plast alone and record themselves in last).
CallStep(k) ==
    /\ plast'.op = "call"
    /\ plast'.kind = k
    /\ <<last, refs, muts>>' = <<last, refs, muts>>

\* The wrapper-level guard an entry point of kind k asks for is not free.
GuardRefused(k) == gflag = -1 \/ (gflag > 0 /\ IsMut(k))

\* The handle's own cell grants the view the registry takes for kind k.
CellGranted(k) == IF IsMut(k) THEN flag = 0 ELSE flag >= 0

ProxyError(k) ==
    IF IsMut(k) THEN "UserDataProxyBorrowMutError" ELSE "UserDataProxyBorrowError"

\* C15 as stated: under the Mutable policy every forwarded call made while
\* the guard cannot be granted returns the proxy borrow error of its kind,
\* does not enter the inner callback and leaves the inner value unchanged.
C15_AsStated ==
    [][\A k \in MethodKinds :
        (policy = "Mutable" /\ CallStep(k) /\ GuardRefused(k)) =>
            /\ plast'.res = ProxyError(k)
            /\ UNCHANGED <<stack, inner, gflag, flag>>]_vars

\* C15, amended: the same, for calls whose borrow of the handle's own cell
\* is granted; a call stopped at the handle's cell returns that cell's
\* borrow error instead.
C15_GuardRefused ==
    [][\A k \in MethodKinds :
        (policy = "Mutable" /\ CallStep(k) /\ GuardRefused(k)) =>
            /\ plast'.res = IF CellGranted(k) THEN ProxyError(k)
                            ELSE IF IsMut(k) THEN "UserDataBorrowMutError"
                            ELSE "UserDataBorrowError"
            /\ UNCHANGED <<stack, inner, gflag, flag>>]_vars

\* add went through once; called again under a guard held elsewhere it
\* was refused.
C15_Witness ==
    /\ policy = "Mutable"
    /\ plast = [op |-> "call", kind |-> "method_mut", res |-> "UserDataProxyBorrowMutError"]
    /\ gexcl = 1
    /\ inner = 1
    /\ stack = <<>>

Conflicts(k) == stack # <<>> /\ (IsMut(k) \/ IsMut(stack[Len(stack)].kind))

\* C17: a method that holds a view of the value and calls a second method
\* on it is never left waiting.  The nested call whose view conflicts
\* returns the cell's borrow error in the same step and takes nothing;
\* the running callback can always return; its return gives its view
\* back, so the cell's flag always equals the views still held.
C17_NestedCallFailsFast ==
    /\ [][\A k \in MethodKinds :
            (CallStep(k) /\ Conflicts(k)) =>
                /\ plast'.res = IF IsMut(k) THEN "UserDataBorrowMutError"
                                ELSE "UserDataBorrowError"
                /\ UNCHANGED <<stack, inner, gflag, flag>>]_vars
    /\ [][Popped =>
            flag' = IF IsMut(stack[Len(stack)].kind) THEN 0 ELSE flag - 1]_vars
    /\ [](stack # <<>> => ENABLED Return("Ok", 0))
    /\ [](flag = IF muts + MutFrames >= 1 THEN -1 ELSE refs + SharedFrames)

\* Inside a running method a mutating method was called and refused at
\* once: the outer method is still running and holds the only view.
C17_Witness ==
    /\ plast = [op |-> "call", kind |-> "method_mut", res |-> "UserDataBorrowMutError"]
    /\ stack = <<[kind |-> "method"]>>
    /\ flag = 1
    /\ refs = 0

\* The step is a metatable operation or equals (Take records itself in last).
MetaStep(ops) == mlast'.op \in ops /\ last' = last

\* C18: UserDataMetatable::set refuses the keys named __index, __newindex,
\* __gc, __metatable and every key whose name starts with __mlua with
\* MetaMethodRestricted and leaves the metatable as it was; for every other
\* key it returns Ok and the metatable holds the value under that name.
C18_SetRestricted ==
    [][MetaStep({"set"}) =>
        LET k == name(mlast'.key) IN
        IF k \in {S.index, S.newindex, S.gc, S.metatable} \/ starts_with(k, S.mlua)
        THEN mlast'.res = "MetaMethodRestricted" /\ mt' = mt
        ELSE mlast'.res = "Ok" /\ mt' = [mt EXCEPT ![k] = mlast'.v]]_vars

\* A custom entry was written; then a write to Custom("__index") was
\* refused and the cached __index is what it was.
C18_Witness ==
    /\ mlast.op = "set"
    /\ mlast.key = Custom(S.index)
    /\ mlast.res = "MetaMethodRestricted"
    /\ mt[S.index] = "internal"
    /\ mt[S.foo] = "fn_true"

\* C19: UserDataMetatable::get and contains fail with MetaMethodRestricted
\* for the keys named __gc, __metatable and every key whose name starts
\* with __mlua; for every other key, __index and __newindex included, get
\* returns the stored value (nil when there is none) and contains returns
\* whether a non-nil value is stored; neither changes the metatable.
C19_GetContains ==
    [][MetaStep({"get", "contains"}) =>
        LET k == name(mlast'.key) IN
        /\ mt' = mt
        /\ IF k \in {S.gc, S.metatable} \/ starts_with(k, S.mlua)
           THEN mlast'.res = "MetaMethodRestricted"
           ELSE /\ mlast'.res = "Ok"
                /\ mlast'.out = IF mlast'.op = "get" THEN mt[k] ELSE mt[k] # "nil"]_vars

\* contains(__index) answered true for the cached entry.
C19_Witness ==
    /\ mlast.op = "contains"
    /\ mlast.key = Index
    /\ mlast.res = "Ok"
    /\ mlast.out = TRUE

\* The metatable a handle carries: that of its type, or the one given to
\* destructed userdata.
MetatableOf(h) == IF h.destructed THEN "DestructedUserdataMT" ELSE h.id

\* C20: equals(a, b) returns true when b is the same storage as a, without
\* calling __eq; otherwise false when the metatables of a and b differ;
\* otherwise the result of calling the shared metatable's __eq when one is
\* stored, and false when none is.
C20_Equals ==
    [][MetaStep({"equals"}) =>
        LET b == mlast'.b
            a == [destructed |-> destructed, id |-> tt.id]
            eq == IF a.destructed THEN "nil" ELSE mt[S.eq]
            r == <<mlast'.res, mlast'.out>>
        IN  IF b.same THEN r = <<"Ok", TRUE>>
            ELSE IF MetatableOf(a) # MetatableOf(b) THEN r = <<"Ok", FALSE>>
            ELSE IF eq # "nil" THEN r = <<call_eq(eq).res, call_eq(eq).out>>
            ELSE r = <<"Ok", FALSE>>]_vars

C22_ConvertInto ==
    [][(last'.op = "convert_into" /\ ~destructed /\ tt.into) =>
         /\ last'.res = IF Views = 0 THEN "Ok" ELSE "UserDataBorrowMutError"
         /\ last'.res = "Ok" => (destructed' <=> ~tt.copy)
         /\ (last'.res = "Ok" /\ tt.copy) =>
                /\ moved' = moved /\ flag' = flag /\ Views' = Views
                /\ uservalues' = uservalues /\ uvtable' = uvtable
         /\ (last'.res = "Ok" /\ ~tt.copy) =>
                LET o == take(St, tt, tt.id) IN
                /\ o.res = "Ok"
                /\ destructed' = o.s.destructed /\ moved' = o.s.moved
                /\ uservalues' = o.s.uv /\ uvtable' = o.s.uvt
                /\ flag' = o.s.flag /\ Views' = Views
      ]_vars

\* A Copy value was converted: the handle is live and keeps its user value.
C22_Witness ==
    /\ tt.into /\ tt.copy
    /\ last.op = "convert_into"
    /\ last.res = "Ok"
    /\ ~destructed
    /\ moved = 0
    /\ uservalues[1] = "a"

\* C23: a counter that starts at 0 holds, after each add that succeeded,
\* the sum of the arguments, and val reads that number (5 after add(5)).
\* While a shared view is held, borrow_mut returns UserDataBorrowMutError
\* and changes neither the counter nor the borrow-state; val is granted
\* whenever no exclusive view is held, so also next to the shared view and
\* after the refused borrow_mut, and reads the same number.
C23_CounterScenario ==
    [][/\ last'.op = "add" =>
            /\ last'.res = IF Views = 0 THEN "Ok" ELSE "UserDataBorrowMutError"
            /\ inner' = IF last'.res = "Ok" THEN inner + last'.n ELSE inner
       /\ last'.op = "val" =>
            /\ last'.res = IF muts = 0 THEN "Ok" ELSE "UserDataBorrowError"
            /\ last'.res = "Ok" => last'.n = inner
            /\ inner' = inner
       /\ (last'.op = "borrow_mut" /\ refs > 0) =>
            /\ last'.res = "UserDataBorrowMutError"
            /\ inner' = inner /\ flag' = flag /\ refs' = refs /\ muts' = muts
       /\ (last'.op \in {"add", "val"}) =>
            flag' = flag /\ refs' = refs /\ muts' = muts
      ]_vars

\* After add(5), val read 5 while a shared view is held.
C23_Witness ==
    /\ inner = 5
    /\ refs = 1
    /\ muts = 0
    /\ last.op = "val"
    /\ last.res = "Ok"
    /\ last.n = 5

\* C24: when a type's metatable is created, the hook on_metatable_init has
\* run before any field or callable is attached by add_fields or
\* add_methods, so what the hook declared is on the type table when the
\* first of them is attached.
C24_HookFirst ==
    reg.attached => reg.hook /\ reg.hookdecl \subseteq reg.seen

\* The hook declared Clone; then a field and a method were attached.
C24_Witness ==
    /\ reg.step = 3
    /\ reg.hookdecl = {"Clone"}
    /\ reg.seen = {"Clone"}
    /\ reg.fields = 1
    /\ reg.methods = 1

\* C25: MetaMethod::validate fails with MetaMethodRestricted exactly for
\* the names __gc and __metatable and the names that start with __mlua;
\* every other MetaMethod, built-in or custom, comes back as it was given.
C25_Validate ==
    [][MetaStep({"validate"}) =>
        LET k == name(mlast'.key) IN
        /\ mt' = mt
        /\ IF k \in {S.gc, S.metatable} \/ starts_with(k, S.mlua)
           THEN mlast'.res = "MetaMethodRestricted"
           ELSE mlast'.res = "Ok" /\ mlast'.out = mlast'.key]_vars

\* A name that only starts with __mlua was rejected.
C25_Witness ==
    /\ mlast.op = "validate"
    /\ mlast.key = Custom(S.mlua_ptr)
    /\ mlast.res = "MetaMethodRestricted"

\* C26: a Lua string created from the bytes b gives back exactly b from
\* as_bytes, zero bytes inside b included, b followed by one zero byte from
\* as_bytes_with_nul, and to_str succeeds iff b is valid UTF-8 (and then
\* gives b).
C26_StringViews ==
    /\ lstr.op = "as_bytes" => lstr.out = lstr.b
    /\ lstr.op = "as_bytes_with_nul" => lstr.out = lstr.b \o <<0>>
    /\ lstr.op = "to_str" =>
          /\ lstr.res = "Ok" <=> from_utf8(lstr.b, 1)
          /\ lstr.res = "Ok" => lstr.out = lstr.b

\* The bytes of a string with a zero byte in the middle were read back.
C26_Witness ==
    /\ lstr.b = <<65, 0, 65>>
    /\ lstr.op = "as_bytes"
    /\ lstr.out = <<65, 0, 65>>

\* The operations that can move the value out of the handle.
TakeFamily == {"take", "clone_or_take", "dyn_take", "dyn_clone_or_take", "convert_into"}

\* C27: a take, dyn_take, clone_or_take, dyn_clone_or_take or convert_into
\* that fails on a live handle leaves the handle live, the value in place,
\* every user-value slot and the borrow-state as they were; a call of these
\* operations that changes a user value has succeeded with no view
\* outstanding.
C27_FailedTakeChangesNothing ==
    [][last'.op \in TakeFamily =>
         /\ (~destructed /\ last'.res # "Ok") =>
              /\ ~destructed' /\ moved' = moved
              /\ uservalues' = uservalues /\ uvtable' = uvtable
              /\ flag' = flag /\ refs' = refs /\ muts' = muts
         /\ (uservalues' # uservalues \/ uvtable' # uvtable) =>
              last'.res = "Ok" /\ Views = 0
      ]_vars

\* A take was refused for a shared view; the user value in slot 1 is kept.
C27_Witness ==
    /\ last.op = "take"
    /\ last.arg = tt.id
    /\ last.res = "UserDataBorrowMutError"
    /\ ~destructed
    /\ moved = 0
    /\ refs = 1
    /\ uservalues[1] = "a"

ViewOps == {"borrow", "borrow_mut", "dyn_borrow", "dyn_borrow_mut"}

\* C28: a destructed handle stays destructed under every handle operation;
\* no borrow, borrow_mut, dyn_borrow or dyn_borrow_mut on it yields a view,
\* and no take, clone_or_take, dyn_take, dyn_clone_or_take or convert_into
\* on it returns a value.
C28_DestructedAbsorbing ==
    [][destructed =>
         /\ destructed'
         /\ moved' = moved
         /\ flag' = flag /\ refs' = refs /\ muts' = muts
         /\ last'.op \in (ViewOps \cup TakeFamily) =>
              last'.res # "Ok" /\ last'.out = "-"
      ]_vars

\* clone_or_take of a type with a clone function was refused on a handle
\* whose value had been taken out.
C28_Witness ==
    /\ destructed
    /\ moved = 1
    /\ tt.clone
    /\ last.op = "clone_or_take"
    /\ last.arg = tt.id
    /\ last.res = "UserDataDestructed"

CloneOrTakeOps == {"clone_or_take", "dyn_clone_or_take"}

KeptSlots == InlineSlots \cup {m \in SlotArgs : m >= USER_VALUE_MAXSLOT /\ m <= U16_MAX}

\* C30: set_nth_user_value(n, v) on a live handle leaves every slot other
\* than n reading what it read before, inline or overflow, and leaves the
\* handle live, its value in place and its borrow-state unchanged; with n
\* outside 1..65535 no slot changes.
C30_SetChangesSlotOnly ==
    [][(last'.op = "set_nth_user_value" /\ ~destructed) =>
         /\ \A m \in KeptSlots \ {last'.n} :
              /\ get_nth_user_value(St', tt', m).res = get_nth_user_value(St, tt, m).res
              /\ get_nth_user_value(St', tt', m).out = get_nth_user_value(St, tt, m).out
         /\ ~destructed' /\ moved' = moved
         /\ flag' = flag /\ refs' = refs /\ muts' = muts
      ]_vars

\* Slot 8, the first overflow slot, was written while one shared view was
\* out; slots 7 and 9 hold the values written before.
C30_Witness ==
    /\ last.op = "set_nth_user_value"
    /\ last.n = USER_VALUE_MAXSLOT
    /\ last.v = "nil"
    /\ last.res = "Ok"
    /\ refs = 1
    /\ uservalues[USER_VALUE_MAXSLOT - 1] = "a"
    /\ uvtable.e[getn(USER_VALUE_MAXSLOT)] = "nil"
    /\ uvtable.e[getn(USER_VALUE_MAXSLOT + 1)] = "a"

CellError(k) == IF IsMut(k) THEN "UserDataBorrowMutError" ELSE "UserDataBorrowError"

\* C31: a call forwarded through a Mutable proxy borrows the handle's own
\* cell first (shared for an immutable entry point, exclusive for a mutable
\* one) and asks for the wrapper-level guard second.  A call refused at the
\* cell returns the cell's borrow error and leaves the guard as it was,
\* whatever its state; the proxy borrow error is returned exactly when the
\* cell granted the view and the guard was refused; a call refused nowhere
\* enters the inner callback holding both the view and the guard.
C31_TwoLayers ==
    [][\A k \in MethodKinds :
        (policy = "Mutable" /\ CallStep(k)) =>
            /\ ~CellGranted(k) =>
                   /\ plast'.res = CellError(k)
                   /\ UNCHANGED <<stack, inner, gflag, flag>>
            /\ plast'.res = ProxyError(k) <=> (CellGranted(k) /\ GuardRefused(k))
            /\ (CellGranted(k) /\ ~GuardRefused(k)) =>
                   /\ plast'.res = "Enter"
                   /\ Pushed
                   /\ flag' = IF IsMut(k) THEN -1 ELSE flag + 1
                   /\ gflag' = IF IsMut(k) THEN -1 ELSE gflag + 1]_vars

\* Both layers were contended (a Ref of the handle is out, the guard is held
\* exclusively elsewhere): the call reported the cell, not the guard.
C31_Witness ==
    /\ policy = "Mutable"
    /\ plast = [op |-> "call", kind |-> "method_mut", res |-> "UserDataBorrowMutError"]
    /\ refs = 1
    /\ gexcl = 1
    /\ gflag = -1
    /\ stack = <<>>

\* C32: under the Immutable policy no forwarded call takes the exclusive
\* guard (a call leaves the guard as it was or adds one shared guard), no
\* callback taking &mut U is ever entered, and no step changes the inner
\* value.
C32_ImmutableNeverWrites ==
    /\ [][policy = "Immutable" =>
            /\ inner' = inner
            /\ \A k \in MethodKinds : CallStep(k) =>
                   /\ gflag' = gflag \/ (gflag >= 0 /\ gflag' = gflag + 1)
                   /\ Pushed => ~IsMut(k)]_vars
    /\ [](policy = "Immutable" =>
            /\ MutFrames = 0
            /\ inner = 0
            /\ gflag = -1 => gexcl = 1)

\* Two forwarded calls are running under the Immutable policy, a method and
\* a field getter called from it: two shared guards, the value untouched.
C32_Witness ==
    /\ policy = "Immutable"
    /\ stack = <<[kind |-> "method"], [kind |-> "field_get"]>>
    /\ plast = [op |-> "call", kind |-> "field_get", res |-> "Enter"]
    /\ gflag = 2
    /\ gshared = 0
    /\ inner = 0

ReadKinds == {k \in MethodKinds : ~IsMut(k)}

OtherPolicy == IF policy = "Mutable" THEN "Immutable" ELSE "Mutable"

\* C33: for add_method, add_meta_method and add_field_method_get the two
\* policies do the same in every state: a call under either policy has the
\* outcome the other policy gives it (the shared guard taken and the inner
\* callback entered, or UserDataProxyBorrowError and nothing taken), and
\* the return of the callback hands back its result and releases one
\* shared guard.
C33_ReadPathsAgree ==
    /\ [](\A k \in ReadKinds :
            box_method(ProxySt, "Immutable", k) = box_method(ProxySt, "Mutable", k))
    /\ [][\A k \in ReadKinds : CallStep(k) =>
            LET o == box_method(ProxySt, OtherPolicy, k) IN
            /\ plast'.res = o.res
            /\ <<flag, gflag, inner, stack>>' =
                   <<o.ps.flag, o.ps.gflag, o.ps.inner, o.ps.stack>>
            /\ plast'.res = "UserDataProxyBorrowError" <=> (flag >= 0 /\ gflag = -1)]_vars
    /\ [][(Popped /\ ~IsMut(stack[Len(stack)].kind)) =>
            /\ plast'.res \in CallbackResults
            /\ gflag' = gflag - 1
            /\ inner' = inner]_vars

\* Under the Immutable policy a getter met the guard held exclusively
\* elsewhere and was refused like under the Mutable policy.
C33_Witness ==
    /\ policy = "Immutable"
    /\ plast = [op |-> "call", kind |-> "field_get", res |-> "UserDataProxyBorrowError"]
    /\ gexcl = 1
    /\ gflag = -1
    /\ flag = 0

\* C34: under both policies a call of a function, meta-function or field
\* function registered through the proxy returns what the function returns
\* and leaves the wrapper-level guard, the handle's cell and the inner value
\* as they were, in every state, also while the guard is held exclusively.
C34_FunctionsPassThrough ==
    /\ [][\A k \in FunctionKinds : CallStep(k) =>
            /\ plast'.res \in CallbackResults
            /\ UNCHANGED <<flag, gflag, inner, stack>>]_vars
    /\ [](\A p \in Policies, r \in CallbackResults :
            /\ box_function(ProxySt, p, r).res = r
            /\ box_function(ProxySt, p, r).ps = ProxySt)

\* Under the Immutable policy add_function_mut's function ran and returned
\* Ok while the guard was held exclusively elsewhere.
C34_Witness ==
    /\ policy = "Immutable"
    /\ plast = [op |-> "call", kind |-> "function_mut", res |-> "Ok"]
    /\ gexcl = 1
    /\ gflag = -1

FieldKinds == {"field_get", "field_set"}

\* C35: under the Mutable policy a field getter or setter whose call reaches
\* the proxy's closure asks for the guard of its kind, shared for a getter
\* and exclusive for a setter: if it is refused the call returns
\* UserDataProxyBorrowError / UserDataProxyBorrowMutError and takes nothing,
\* if it is granted the inner accessor runs under it; when the accessor
\* returns, with Ok or with an error, exactly that guard is released.
C35_FieldAccessors ==
    /\ [][\A k \in FieldKinds :
            (policy = "Mutable" /\ CallStep(k) /\ CellGranted(k)) =>
                IF GuardRefused(k)
                THEN /\ plast'.res = ProxyError(k)
                     /\ UNCHANGED <<stack, inner, gflag, flag>>
                ELSE /\ plast'.res = "Enter"
                     /\ Pushed /\ stack'[Len(stack')].kind = k
                     /\ gflag' = IF k = "field_set" THEN -1 ELSE gflag + 1]_vars
    /\ [][(policy = "Mutable" /\ Popped /\ stack[Len(stack)].kind \in FieldKinds) =>
            /\ plast'.res \in CallbackResults
            /\ gflag' = IF stack[Len(stack)].kind = "field_set" THEN 0 ELSE gflag - 1
            /\ stack[Len(stack)].kind = "field_set" => gflag = -1]_vars

\* A setter ran under the exclusive guard and failed: the guard is free.
C35_Witness ==
    /\ policy = "Mutable"
    /\ plast = [op |-> "return", kind |-> "field_set", res |-> "CallbackError"]
    /\ stack = <<>>
    /\ gflag = 0
    /\ gshared = 0
    /\ gexcl = 0

\* C36: convert_into returns UserDataDestructed on a destructed handle,
\* else UserDataDynMismatch when the stored type does not declare the
\* conversion, else UserDataBorrowMutError when a view is outstanding, else
\* Ok; a failed call changes nothing, and the converted value is returned,
\* and the handle destructed, only by a call that passed all three tests.
C36_ConvertIntoOrder ==
    [][last'.op = "convert_into" =>
         /\ last'.res = IF destructed THEN "UserDataDestructed"
                        ELSE IF ~tt.into THEN "UserDataDynMismatch"
                        ELSE IF Views > 0 THEN "UserDataBorrowMutError"
                        ELSE "Ok"
         /\ last'.res # "Ok" =>
              /\ last'.out = "-"
              /\ destructed' = destructed /\ moved' = moved
              /\ uservalues' = uservalues /\ uvtable' = uvtable
              /\ flag' = flag /\ refs' = refs /\ muts' = muts
         /\ (last'.out = "converted" \/ destructed' # destructed \/ moved' # moved) =>
              ~destructed /\ tt.into /\ Views = 0
      ]_vars

\* A type without the conversion, a shared view outstanding: the missing
\* conversion is what the call reports.
C36_Witness ==
    /\ ~tt.into
    /\ ~destructed
    /\ refs = 1
    /\ last.op = "convert_into"
    /\ last.res = "UserDataDynMismatch"

MutKinds == {k \in MethodKinds : IsMut(k)}

RestrictedName(n) == n \in {S.gc, S.metatable} \/ starts_with(n, S.mlua)

YieldedNames == {name(pairs_iter.yielded[i].key) : i \in 1..Len(pairs_iter.yielded)}

\* C38: whatever the order of the traversal, no pair the iterator yields
\* has the key __gc, __metatable or a key starting with __mlua; each
\* yielded pair is an entry of the metatable; no key is yielded twice; and
\* when the iterator has returned None, every entry with another key has
\* been yielded.
C38_Pairs ==
    /\ \A i \in 1..Len(pairs_iter.yielded) :
          /\ ~RestrictedName(name(pairs_iter.yielded[i].key))
          /\ pairs_iter.yielded[i].key = From(name(pairs_iter.yielded[i].key))
          /\ pairs_iter.yielded[i].value = mt[name(pairs_iter.yielded[i].key)]
          /\ pairs_iter.yielded[i].value # "nil"
    /\ Cardinality(YieldedNames) = Len(pairs_iter.yielded)
    /\ pairs_iter.done =>
          YieldedNames = {n \in KeyNames : mt[n] # "nil" /\ ~RestrictedName(n)}

\* The iterator is exhausted: it has yielded __index and __mlu and skipped
\* __gc, __metatable and __mlua_ptr.
C38_Witness ==
    /\ pairs_iter.done
    /\ mt[S.mlu] = "fn_true"
    /\ Len(pairs_iter.yielded) = 2
    /\ YieldedNames = {S.index, S.mlu}

\* C39: for every MetaMethod m, MetaMethod::from(m.name()) is equal to m;
\* two MetaMethod values are equal iff their names are equal, so
\* Custom("__index") and Index, different values of the enum, are equal;
\* and set refuses every key named __index or __newindex, the Custom ones
\* like the built-in ones, and leaves the metatable as it was.
C39_NameRoundTrip ==
    /\ [](\A m \in Keys : MetaMethodEq(From(name(m)), m))
    /\ [](\A a, b \in Keys : MetaMethodEq(a, b) <=> name(a) = name(b))
    /\ [](Custom(S.index) # Index /\ MetaMethodEq(Custom(S.index), Index))
    /\ [][(MetaStep({"set"}) /\ name(mlast'.key) \in {S.index, S.newindex}) =>
            /\ mlast'.res = "MetaMethodRestricted"
            /\ mt' = mt]_vars

\* set was called with Custom("__newindex") and refused: no entry made.
C39_Witness ==
    /\ mlast.op = "set"
    /\ mlast.key = Custom(S.newindex)
    /\ mlast.v = "fn_true"
    /\ mlast.res = "MetaMethodRestricted"
    /\ mt[S.newindex] = "nil"

\* The step is a call of try_clone_to_user_data.
CloneStep ==
    /\ last'.op = "try_clone_to_user_data"
    /\ last' # last \/ made' # made

\* C40: try_clone_to_user_data returns Ok and makes one new handle, holding
\* a value equal to the source, iff the type table has a clone function and
\* declares Send; otherwise it returns UserDataDynMismatch and makes no
\* handle.  Either way the source value, its handle and the handle's
\* borrow-state are as before.
C40_TryClone ==
    [][CloneStep =>
         /\ last'.res = IF tt.clone /\ "Send" \in tt.traits THEN "Ok"
                        ELSE "UserDataDynMismatch"
         /\ last'.res = "Ok" =>
              made'.count = made.count + 1 /\ made'.value = inner
         /\ last'.res # "Ok" => made' = made
         /\ inner' = inner
         /\ destructed' = destructed /\ moved' = moved
         /\ flag' = flag /\ refs' = refs /\ muts' = muts
      ]_vars

\* The counter was driven to 5 and cloned into a new handle while a shared
\* view of it was out.
C40_Witness ==
    /\ tt.clone /\ "Send" \in tt.traits
    /\ last.op = "try_clone_to_user_data"
    /\ last.res = "Ok"
    /\ made = [count |-> 1, value |-> 5]
    /\ inner = 5
    /\ refs = 1

====
